---- MODULE Spec2Model ----
(***************************************************************************)
(* Verraco reading-exam core: attempt store, shuffle engine, answer-key    *)
(* resolver and grader (backend/services/*.py, backend/routes/             *)
(* exam_routes.py), as a state machine.                                    *)
(*                                                                         *)
(* Conventions of the model                                                *)
(*  - Python lists are sequences; Python index i is position i + 1.        *)
(*  - A Python string that the code takes apart (an answer-key value) is a *)
(*    sequence of one-character strings; a letter token is a one-character  *)
(*    string.                                                              *)
(*  - A question id is a record [fmt, p, q]: the id formats the code       *)
(*    produces and parses ("P3-Q2", "3-2", "3-q2", "q2", "p03_q10", a bare  *)
(*    number, an opaque word) with the passage and question numbers.       *)
(*  - An optional dict entry that is absent is the empty value of its type *)
(*    (<<>>, "" or -1); the code treats None and the empty value alike at   *)
(*    each place the model reads one.                                      *)
(*  - A resolved or stored answer is a sequence of tokens: the code keeps  *)
(*    a bare string when there is one token and a list otherwise.          *)
(***************************************************************************)
EXTENDS Integers, Sequences, FiniteSets, TLC

VARIABLES
    files,          \* the data files on disk: passages, q9, q10, keys
    jsonCache,      \* exam_services._JSON_CACHE (and q10_repo._Q10_BANK)
    ATTEMPTS,       \* core.store.ATTEMPTS: attempt id -> attempt record
    ATTEMPT_COUNTER,\* core.store.ATTEMPT_COUNTER
    threads,        \* worker threads, each running one start() request
    rngShuffle,     \* random.Random(q_seed).shuffle: q_seed -> order drawn
    rngPassage,     \* random.Random(seed).randrange(n): <<seed, n>> -> index
    hist,           \* what the requests processed so far did (history)
    inE, inSeed,    \* pipeline study: the exam set and the seed in hand
    out1, out2,     \* pipeline study: results of two shuffle_exam_set calls
    resolved,       \* pipeline study: <<_build_correct_answers(out1)>>
    graded,         \* pipeline study: <<[answers, report]>> of grade()
    phase,          \* pipeline study: how far the pipeline has run
    scale,          \* the arguments and the result of scale_reading_score
    pick,           \* the argument and the result of the last passage pick
    normed          \* the argument and the result of _normalize_choices

vars == <<files, jsonCache, ATTEMPTS, ATTEMPT_COUNTER, threads, rngShuffle,
          rngPassage, hist, inE, inSeed, out1, out2, resolved, graded,
          phase, scale, pick, normed>>

lifeVars == <<ATTEMPTS, ATTEMPT_COUNTER, threads, hist>>
studyVars ==
    <<inE, inSeed, out1, out2, resolved, graded, phase, scale, pick, normed>>

-----------------------------------------------------------------------------
(* Bounds of the model *)

\* seeds random.randint may return are 1..MaxSeed
MaxSeed == 2
\* concurrent start() requests, each served by its own worker thread
MaxThreads == 2
\* save / submit / autosubmit requests served
MaxRequests == 2
\* orders of LifeOrderList the shuffle may draw in the attempt life cycle
MaxOrders == 2
\* raw points and totals given to scale_reading_score are -1..MaxPoints
MaxPoints == 12
\* the passage banks of the passage pick hold 1..MaxBank passages
MaxBank == 13
\* start() requests one worker serves one after another
MaxStarts == 2

-----------------------------------------------------------------------------
(* Generic helpers *)

Range(s) == {s[i] : i \in DOMAIN s}

RECURSIVE SelectSeqBy(_, _)
\* [x for x in s if x in S]
SelectSeqBy(s, S) ==
    IF s = <<>> THEN <<>>
    ELSE (IF Head(s) \in S THEN <<Head(s)>> ELSE <<>>) \o SelectSeqBy(Tail(s), S)

EmptyMap == <<>>

\* dict.get(k, default)
DictGet(d, k, default) == IF k \in DOMAIN d THEN d[k] ELSE default

\* d | {k: v}
DictPut(d, k, v) == [x \in DOMAIN d \cup {k} |-> IF x = k THEN v ELSE d[x]]

\* dict.update(u)
DictUpdate(d, u) ==
    [x \in DOMAIN d \cup DOMAIN u |-> IF x \in DOMAIN u THEN u[x] ELSE d[x]]

-----------------------------------------------------------------------------
(* Letters *)

\* shuffle_service._LETTERS, exam_services._LETTERS
LETTERS4 == <<"A", "B", "C", "D">>

\* exam_routes.LETTERS, grader.LETTERS
LETTERS == <<"A", "B", "C", "D", "E", "F">>

Letters4 == Range(LETTERS4)
Letters6 == Range(LETTERS)

\* LETTERS.index(l) + 1
IndexOf(seq, l) == CHOOSE i \in DOMAIN seq : seq[i] = l

\* sorted(list(set(...))) of letters
SortedLetters(S) ==
    SelectSeqBy(LETTERS, S \cap Letters6)

-----------------------------------------------------------------------------
(* Characters: str(x).strip().upper() on a one-character token *)

LowerToUpper ==
    [c \in {"a", "b", "c", "d", "e", "f", "q", "z"} |->
        CASE c = "a" -> "A" [] c = "b" -> "B" [] c = "c" -> "C"
          [] c = "d" -> "D" [] c = "e" -> "E" [] c = "f" -> "F"
          [] c = "q" -> "Q" [] c = "z" -> "Z"]

Upper(c) == IF c \in DOMAIN LowerToUpper THEN LowerToUpper[c] ELSE c

\* str(x).strip().upper() of a token: a blank strips to the empty string
StripUpper(c) == IF c = " " THEN "" ELSE Upper(c)

Digits == <<"0", "1", "2", "3", "4", "5", "6", "7", "8", "9">>

IsDigit(c) == c \in Range(Digits)

\* int(ch)
DigitValue(c) == IndexOf(Digits, c) - 1

-----------------------------------------------------------------------------
(* Shuffle engine: services/shuffle_service.py *)

\* what rng.shuffle(indexed) can leave in `indexed`: order[new_i] = old_i
Perms4 ==
    {p \in [1..4 -> 1..4] : \A i, j \in 1..4 : i # j => p[i] # p[j]}

IdentityOrder == <<1, 2, 3, 4>>

RECURSIVE StripUpperNonEmpty(_)
\* [str(x).strip().upper() for x in v if that is non-empty]
StripUpperNonEmpty(v) ==
    IF v = <<>> THEN <<>>
    ELSE (IF StripUpper(Head(v)) = "" THEN <<>> ELSE <<StripUpper(Head(v))>>)
         \o StripUpperNonEmpty(Tail(v))

\* _as_letter_list on a list value
_as_letter_list(v) == StripUpperNonEmpty(v)

\* _as_letter_list on a str value
_as_letter_list_str(s) ==
    IF StripUpper(s) = "" THEN <<>> ELSE <<StripUpper(s)>>

_get_correct_letters(q) ==
    IF _as_letter_list(q.correct_letters) # <<>>
        THEN _as_letter_list(q.correct_letters)
    ELSE IF _as_letter_list(q.correct) # <<>>
        THEN _as_letter_list(q.correct)
    ELSE IF _as_letter_list_str(q.correct_letter) # <<>>
        THEN _as_letter_list_str(q.correct_letter)
    ELSE IF q.correct_index >= 0 /\ q.correct_index < 4
        THEN <<LETTERS4[q.correct_index + 1]>>
    ELSE <<>>

_set_correct_letters(q, new_letters) ==
    LET is_multi == (q.type = "multi") \/ (Len(new_letters) > 1)
        letter == IF new_letters # <<>> THEN new_letters[1] ELSE "A"
    IN  IF is_multi
        THEN [q EXCEPT !.correct_letters = new_letters,
                       !.correct = new_letters,
                       !.correct_letter = "",
                       !.correct_index = -1]
        ELSE [q EXCEPT !.correct_letter = letter,
                       !.correct = <<letter>>,
                       !.correct_index =
                           IF letter \in Letters4
                           THEN IndexOf(LETTERS4, letter) - 1 ELSE 0,
                       !.correct_letters = <<>>]

\* the old index at each new index, taken for the new index at each old one
NewIndexToOldIndex(order) == [new_i \in 1..4 |-> order[new_i]]

\* old_index_to_new_index of _shuffle_choices_one (positions from 1)
OldIndexToNewIndex(order) ==
    [old_i \in 1..4 |-> CHOOSE new_i \in 1..4 : order[new_i] = old_i]

\* label_to_old_index of _shuffle_choices_one: a later item overrides
LabelToOldIndex(parsed) ==
    LET key(i) == IF parsed[i][1] \in Letters4 THEN parsed[i][1] ELSE LETTERS4[i]
        keys == {key(i) : i \in 1..4}
    IN  [lab \in keys |->
            CHOOSE i \in 1..4 :
                /\ key(i) = lab
                /\ \A j \in 1..4 : key(j) = lab => j <= i]

\* the correct letters left where they were before the shuffle
KeepCorrect(correct_before, l2o, o2n) == correct_before

RECURSIVE NewCorrect(_, _, _)
\* the loop building new_correct
NewCorrect(correct_before, l2o, o2n) ==
    IF correct_before = <<>> THEN <<>>
    ELSE LET lab == Head(correct_before)
             rest == NewCorrect(Tail(correct_before), l2o, o2n)
         IN  IF lab \notin Letters4 THEN rest
             ELSE IF lab \notin DOMAIN l2o THEN rest
             ELSE <<LETTERS4[o2n[l2o[lab]]]>> \o rest

\* the choices moved with the letters they had
ShuffleWithLabels(q, order) ==
    IF Len(q.choices) # 4 THEN q
    ELSE [q EXCEPT !.choices = [i \in 1..4 |-> q.choices[order[i]]],
                   !.meta.shuffled_choices = TRUE]

\* _shuffle_choices_one, with `order` what rng.shuffle left in `indexed`
_shuffle_choices_one(q, order) ==
    IF Len(q.choices) # 4 THEN q
    ELSE
    LET parsed == [i \in 1..4 |-> <<StripUpper(q.choices[i][1]), q.choices[i][2]>>]
        correct_before == _get_correct_letters(q)
        o2n == OldIndexToNewIndex(order)
        l2o == LabelToOldIndex(parsed)
        new_correct == NewCorrect(correct_before, l2o, o2n)
        new_choices == [i \in 1..4 |-> <<LETTERS4[i], parsed[order[i]][2]>>]
        q2 == _set_correct_letters([q EXCEPT !.choices = new_choices],
                  IF new_correct # <<>> THEN new_correct ELSE <<"A">>)
        old_to_new == [l \in Letters4 |-> LETTERS4[o2n[IndexOf(LETTERS4, l)]]]
        new_to_old == [l \in Letters4 |->
                          CHOOSE o \in Letters4 : old_to_new[o] = l]
    IN  [q2 EXCEPT !.meta.shuffled_choices = TRUE,
                   !.meta.old_to_new_letter = old_to_new,
                   !.meta.new_to_old_letter = new_to_old]

\* q_seed = (int(seed) * 1000003) + idx, idx the Python index of the question
QSeed(seed, i) == (seed * 1000003) + (i - 1)

\* sequence numbers counted from the end of the list
SeqFromEnd(qs) ==
    [i \in DOMAIN qs |->
        IF qs[i].meta.seq = 0 THEN [qs[i] EXCEPT !.meta.seq = Len(qs) + 1 - i]
        ELSE qs[i]]

\* the loop "if 'seq' not in meta: meta['seq'] = i" (shuffle_exam_set and
\* _ensure_seq); seq = 0 stands for the absent key
EnsureSeqList(qs) ==
    [i \in DOMAIN qs |->
        IF qs[i].meta.seq = 0 THEN [qs[i] EXCEPT !.meta.seq = i] ELSE qs[i]]

\* a generator seeded from the clock: any order, whatever was drawn before
FreshDraw(memo, qseed, order) == TRUE

\* random.Random(q_seed) is a function of q_seed: an order already drawn
\* for this q_seed is drawn again
SeededDraw(memo, qseed, order) ==
    qseed \in DOMAIN memo => memo[qseed] = order

\* whether _shuffle_choices_one consumes its rng for q
UsesRng(q) == Len(q.choices) = 4

\* the orders the generator of question i (from 1) may give under seed,
\* drawn from pool
OrdersOne(memo, q, seed, i, pool) ==
    IF UsesRng(q)
    THEN {order \in pool : SeededDraw(memo, QSeed(seed, i), order)}
    ELSE {IdentityOrder}

RECURSIVE OrdersUpTo(_, _, _, _, _)
\* the orders of the first n questions
OrdersUpTo(memo, qs, seed, pool, n) ==
    IF n = 0 THEN {<<>>}
    ELSE {Append(os, order) :
            os \in OrdersUpTo(memo, qs, seed, pool, n - 1),
            order \in OrdersOne(memo, qs[n], seed, n, pool)}

\* the orders the per-question generators may give for exam_set under seed
OrdersFor(memo, exam_set, seed, pool) ==
    OrdersUpTo(memo, exam_set.questions, seed, pool, Len(exam_set.questions))

\* the generator memo after the draws of one shuffle_exam_set call
MemoAfter(memo, exam_set, seed, os) ==
    LET used == {i \in DOMAIN exam_set.questions : UsesRng(exam_set.questions[i])}
        new == {QSeed(seed, i) : i \in used}
    IN  [s \in DOMAIN memo \cup new |->
            IF s \in DOMAIN memo THEN memo[s]
            ELSE os[CHOOSE i \in used : QSeed(seed, i) = s]]

\* the argument being the object the questions were shuffled in
ShuffledInPlace(exam_set, shuffled) == shuffled

\* the argument of shuffle_exam_set after the call: out is a deep copy, and
\* _shuffle_choices_one works on a deep copy of each question
ArgumentAfter(exam_set, shuffled) == exam_set

\* shuffle_exam_set(exam_set, seed), given the orders its generators drew
shuffle_exam_set(exam_set, os) ==
    IF exam_set.questions = <<>> THEN exam_set
    ELSE [exam_set EXCEPT !.questions =
            EnsureSeqList(
                [i \in DOMAIN exam_set.questions |->
                    _shuffle_choices_one(exam_set.questions[i], os[i])])]

-----------------------------------------------------------------------------
(* Ids.  A passage id is [fmt, n]: "P" is "P<n>", "N" is "<n>", "none" the  *)
(* empty string, "w" a word without digits.  An exam set's id is           *)
(* "reading-<pid>" (or "reading"): the model keeps the pid.  A question id *)
(* is [fmt, p, q]:                                                         *)
(*   "P-Q" P3-Q2   "N-N" 3-2     "P-N" P3-2   "P-q" P3-q2   "N-q" 3-q2      *)
(*   "N-Q" 3-Q2    "q" q2        "Q" Q2       "N" 2                        *)
(*   "p_q" p03_q10 "P_Q" P03_Q10 "w" / "W" a word without digits           *)

QidFmts == {"P-Q", "N-N", "P-N", "P-q", "N-q", "N-Q", "q", "Q", "N",
            "p_q", "P_Q", "w", "W"}

Qid(fmt, p, q) == [fmt |-> fmt, p |-> p, q |-> q]

\* qid.upper()
UpperQid(qid) ==
    [qid EXCEPT !.fmt =
        CASE qid.fmt = "P-q" -> "P-Q"
          [] qid.fmt = "N-q" -> "N-Q"
          [] qid.fmt = "q" -> "Q"
          [] qid.fmt = "p_q" -> "P_Q"
          [] qid.fmt = "w" -> "W"
          [] OTHER -> qid.fmt]

\* _extract_passage_no(exam_set.get("id")): the first digit run, 0 for None
_extract_passage_no(exam_id) ==
    IF exam_id.fmt \in {"P", "N"} THEN exam_id.n ELSE 0

\* _extract_qno(qid): the three regular expressions, 0 for None.  The first
\* needs digits, a separator and the trailing number; the second P<d>Q<d>;
\* the third a Q followed by the trailing number
_extract_qno(qid) ==
    IF qid.fmt \in {"P-Q", "N-N", "P-N", "P-q", "N-q", "N-Q", "p_q", "P_Q"}
        THEN qid.q
    ELSE IF qid.fmt \in {"q", "Q"} THEN qid.q
    ELSE 0

\* kk.lower().startswith("q")
StartsWithQ(qid) == qid.fmt \in {"q", "Q"}

-----------------------------------------------------------------------------
(* Answer-key values.  A value of the answer-key file is                   *)
(*   [kind |-> "none" | "str" | "int" | "list", s |-> sequence]            *)
(* s: the characters of the string (or of str(int)), or the list's items.  *)

NoneVal == [kind |-> "none", s |-> <<>>]
StrVal(chars) == [kind |-> "str", s |-> chars]
IntVal(chars) == [kind |-> "int", s |-> chars]
ListVal(items) == [kind |-> "list", s |-> items]

RECURSIVE MapUpper(_)
MapUpper(s) == IF s = <<>> THEN <<>> ELSE <<Upper(Head(s))>> \o MapUpper(Tail(s))

RECURSIVE DigitsToLetters(_)
\* for ch in s: i = int(ch); if 0 <= i < len(LETTERS): out.append(LETTERS[i])
DigitsToLetters(s) ==
    IF s = <<>> THEN <<>>
    ELSE (IF DigitValue(Head(s)) < Len(LETTERS)
          THEN <<LETTERS[DigitValue(Head(s)) + 1]>> ELSE <<>>)
         \o DigitsToLetters(Tail(s))

\* s.strip().upper() then .replace(",", "").replace(" ", "")
Compact(s) == SelectSeqBy(MapUpper(s), {c \in Range(MapUpper(s)) : c \notin {",", " "}})

\* exam_routes._normalize_correct_value
_normalize_correct_value(v) ==
    IF v.kind = "none" THEN <<>>
    ELSE IF v.kind = "list" THEN StripUpperNonEmpty(v.s)
    ELSE LET s == Compact(v.s)
         IN  IF s = <<>> THEN <<>>
             ELSE IF Len(s) = 1 THEN s
             ELSE IF \A i \in DOMAIN s : IsDigit(s[i]) THEN DigitsToLetters(s)
             ELSE SelectSeqBy(s, Letters6)

-----------------------------------------------------------------------------
(* Answer-key resolver: exam_routes._build_correct_answers                 *)
(* The answer-key file is [kind |-> "missing" | "invalid" | "list" |       *)
(* "dict", rows |-> sequence of [id, answers], map |-> key -> value].      *)

NoKeys == [kind |-> "missing", rows |-> <<>>, map |-> EmptyMap]

\* q_by_id[qid]: the last question of the list carrying the id
QById(questions, qid) ==
    LET at == {i \in DOMAIN questions : questions[i].id = qid}
    IN  questions[CHOOSE i \in at : \A j \in at : j <= i]

\* _get_old_to_new_map_for_qid: the empty map for None
_get_old_to_new_map_for_qid(questions, qid) ==
    IF \E i \in DOMAIN questions : questions[i].id = qid
    THEN QById(questions, qid).meta.old_to_new_letter
    ELSE EmptyMap

\* the value left in pre-shuffle lettering
KeepLetters(questions, qid, val) == val

\* _remap_if_shuffled(qid, val): m.get(v, v) on the string or on each item
_remap_if_shuffled(questions, qid, val) ==
    LET m == _get_old_to_new_map_for_qid(questions, qid)
    IN  IF DOMAIN m = {} THEN val
        ELSE [i \in DOMAIN val |-> DictGet(m, StripUpper(val[i]), StripUpper(val[i]))]

\* _put(qid, raw_correct) on the map built so far
_put(out, questions, qid, raw_correct) ==
    LET norm == _normalize_correct_value(raw_correct)
    IN  IF norm = <<>> THEN out
        ELSE DictPut(out, qid, _remap_if_shuffled(questions, qid, norm))

\* the row of the list schema for passage_no: the first whose id matches
KeyRow(keys, passage_no) ==
    LET at == {i \in DOMAIN keys.rows : keys.rows[i].id = passage_no}
    IN  IF at = {} THEN <<>>
        ELSE keys.rows[CHOOSE i \in at : \A j \in at : i <= j].answers

RECURSIVE PutListSchema(_, _, _, _)
\* 1) list schema: for q in questions: _put(qid, answers[qno - 1])
PutListSchema(out, questions, rest, answers) ==
    IF rest = <<>> THEN out
    ELSE LET qid == Head(rest).id
             qno == _extract_qno(qid)
         IN  PutListSchema(
                 IF qno # 0 /\ 1 <= qno /\ qno <= Len(answers)
                 THEN _put(out, questions, qid, answers[qno])
                 ELSE out,
                 questions, Tail(rest), answers)

RECURSIVE PutLegacy(_, _, _, _)
\* 2) legacy dict schema: for k, v in keys.items(): if k starts with q: _put
PutLegacy(out, questions, map, todo) ==
    IF todo = {} THEN out
    ELSE LET k == CHOOSE k \in todo : TRUE
         IN  PutLegacy(
                 IF StartsWithQ(k) THEN _put(out, questions, k, map[k]) ELSE out,
                 questions, map, todo \ {k})

RECURSIVE PutEmbedded(_, _, _)
\* 3) fallback: for q in questions: if qid not in out: _put(qid, q["correct"])
PutEmbedded(out, questions, rest) ==
    IF rest = <<>> THEN out
    ELSE LET q == Head(rest)
         IN  PutEmbedded(
                 IF q.id \in DOMAIN out THEN out
                 ELSE _put(out, questions, q.id, ListVal(q.correct)),
                 questions, Tail(rest))

_build_correct_answers(exam_set, keys) ==
    LET questions == exam_set.questions
        passage_no == _extract_passage_no(exam_set.id)
        answers == IF passage_no # 0 /\ keys.kind = "list"
                   THEN KeyRow(keys, passage_no) ELSE <<>>
        o1 == IF answers # <<>>
              THEN PutListSchema(EmptyMap, questions, questions, answers)
              ELSE EmptyMap
        o2 == IF keys.kind = "dict"
              THEN PutLegacy(o1, questions, keys.map, DOMAIN keys.map)
              ELSE o1
    IN  PutEmbedded(o2, questions, questions)

-----------------------------------------------------------------------------
(* Grader: services/grader.py *)

\* _normalize_letter_list(v); v is a bare string when it has one token
_normalize_letter_list(v) ==
    IF v = <<>> THEN <<>>
    ELSE IF Len(v) # 1
        THEN SortedLetters(Range(StripUpperNonEmpty(v)))
    ELSE LET s2 == Compact(v)
         IN  IF s2 = <<>> THEN <<>>
             ELSE IF IsDigit(s2[1]) THEN SortedLetters(Range(DigitsToLetters(s2)))
             ELSE IF s2[1] \in Letters6 THEN s2
             ELSE <<>>

\* answers.get(qid) or answers.get(qid_u), then _normalize_letter_list
_get_user_answer_from_sources(qid, answers) ==
    LET v == IF qid \in DOMAIN answers /\ answers[qid] # <<>> THEN answers[qid]
             ELSE DictGet(answers, UpperQid(qid), <<>>)
    IN  _normalize_letter_list(v)

\* _get_correct_answer(q, correct_answers)
_get_correct_answer(q, correct_answers) ==
    IF q.id \in DOMAIN correct_answers
        THEN _normalize_letter_list(correct_answers[q.id])
    ELSE IF UpperQid(q.id) \in DOMAIN correct_answers
        THEN _normalize_letter_list(correct_answers[UpperQid(q.id)])
    ELSE IF q.correct # <<>> THEN _normalize_letter_list(q.correct)
    ELSE IF q.correct_letters # <<>> THEN _normalize_letter_list(q.correct_letters)
    ELSE IF q.correct_letter # "" THEN _normalize_letter_list(<<q.correct_letter>>)
    ELSE <<>>

Score(pts, max, ok) == [points |-> pts, max_points |-> max, ok |-> ok]

\* the first submitted letter scored, however many were submitted
ScoreFirstLetter(user, correct) ==
    IF correct = <<>> \/ user = <<>> THEN Score(0, 1, FALSE)
    ELSE Score(IF user[1] \in Range(correct) THEN 1 ELSE 0, 1,
               user[1] \in Range(correct))

_score_single(user, correct) ==
    IF correct = <<>> THEN Score(0, 1, FALSE)
    ELSE IF Len(user) # 1 THEN Score(0, 1, FALSE)
    ELSE LET ok == IF Len(correct) = 1 THEN user[1] = correct[1]
                   ELSE user[1] \in Range(correct)
         IN  Score(IF ok THEN 1 ELSE 0, 1, ok)

\* exact match without the check of an empty correct set
ScoreExactOnly(user, correct) ==
    Score(IF Range(user) = Range(correct) THEN 1 ELSE 0, 1,
          Range(user) = Range(correct))

_score_multi_exact(user, correct) ==
    IF correct = <<>> THEN Score(0, 1, FALSE)
    ELSE LET ok == Range(user) = Range(correct) /\ Len(user) > 0
         IN  Score(IF ok THEN 1 ELSE 0, 1, ok)

\* one point for a submission inside the correct set, two for the set
ScorePartial(user, correct) ==
    IF correct = <<>> \/ user = <<>> THEN Score(0, 2, FALSE)
    ELSE IF Range(user) = Range(correct) THEN Score(2, 2, TRUE)
    ELSE IF Range(user) \subseteq Range(correct) THEN Score(1, 2, FALSE)
    ELSE Score(0, 2, FALSE)

_score_summary_q10(user, correct) ==
    IF correct = <<>> THEN Score(0, 2, FALSE)
    ELSE IF Len(user) = 0 THEN Score(0, 2, FALSE)
    ELSE LET ok == Range(user) = Range(correct)
         IN  Score(IF ok THEN 2 ELSE 0, 2, ok)

\* the table of scale_reading_score
ScaleTable == <<0, 7, 12, 16, 20, 23, 25, 26, 27, 28, 29, 30>>

\* a table without its top row: a lookup of 11 gives the default
TableGetNoTop(k) == IF k >= 0 /\ k <= 10 THEN ScaleTable[k + 1] ELSE 0

TableGet(k) == IF k >= 0 /\ k <= 11 THEN ScaleTable[k + 1] ELSE 0

Max(a, b) == IF a >= b THEN a ELSE b
Min(a, b) == IF a <= b THEN a ELSE b

\* int(num / den): the quotient truncated
RoundDown(num, den) == num \div den

\* int(round(num / den)) for num >= 0, den > 0: Python rounds a tie to even
RoundHalfEven(num, den) ==
    LET fl == num \div den
        r2 == 2 * (num % den)
    IN  IF r2 < den THEN fl
        ELSE IF r2 > den THEN fl + 1
        ELSE IF fl % 2 = 0 THEN fl ELSE fl + 1

scale_reading_score(score_points, total_points) ==
    IF total_points = 11
        THEN Max(0, Min(30, TableGet(score_points)))
    ELSE IF total_points <= 0 THEN 0
    ELSE LET sp == Max(0, Min(score_points, total_points))
             eq_raw_11 == RoundHalfEven(sp * 11, total_points)
         IN  Max(0, Min(30, TableGet(eq_raw_11)))

\* one iteration of the loop of _grade_core: the feedback entry of q
GradeOne(q, answers, correct_answers) ==
    LET user_ans == _get_user_answer_from_sources(q.id, answers)
        correct_ans == _get_correct_answer(q, correct_answers)
        sc == IF q.type = "summary" THEN _score_summary_q10(user_ans, correct_ans)
              ELSE IF q.type = "single" THEN _score_single(user_ans, correct_ans)
              ELSE _score_multi_exact(user_ans, correct_ans)
    IN  [qid |-> q.id, qtype |-> q.type,
         user |-> SortedLetters(Range(user_ans)),
         correct |-> SortedLetters(Range(correct_ans)),
         ok |-> sc.ok, points |-> sc.points, max_points |-> sc.max_points]

RECURSIVE SumOver(_, _)
SumOver(fb, field) ==
    IF fb = <<>> THEN 0 ELSE Head(fb)[field] + SumOver(Tail(fb), field)

_grade_core(questions, answers, correct_answers) ==
    [i \in DOMAIN questions |-> GradeOne(questions[i], answers, correct_answers)]

grade(questions, answers, correct_answers) ==
    LET feedback == _grade_core(questions, answers, correct_answers)
        score_points == SumOver(feedback, "points")
        total_points == SumOver(feedback, "max_points")
    IN  [score_points |-> score_points,
         total_points |-> total_points,
         scaled |-> scale_reading_score(score_points, total_points),
         correct_count |-> Cardinality({i \in DOMAIN feedback : feedback[i].ok}),
         question_count |-> Len(feedback),
         feedback |-> feedback]

-----------------------------------------------------------------------------
(* Bank normalizer: services/exam_services.py                              *)
(* A raw passage is [id |-> pid, questions |-> sequence of raw questions]. *)
(* A raw question is                                                       *)
(*   [id |-> qid or NoQid, number |-> int or 0, stem |-> string,            *)
(*    choices |-> [shape, items], correct_index |-> int or -1,             *)
(*    correct |-> answer-key value, question_type |-> string]              *)
(* choices.shape is "strings", "dicts" or "pairs" when every item has that *)
(* shape and "other" otherwise (None, not a list, mixed); items are        *)
(* <<label, text>> with label "" for a string item.                        *)

NoQid == [fmt |-> "", p |-> 0, q |-> 0]
NoPid == [fmt |-> "none", n |-> 0]
Pid(fmt, n) == [fmt |-> fmt, n |-> n]

NoMeta ==
    [seq |-> 0, shuffled_choices |-> FALSE, old_to_new_letter |-> EmptyMap,
     new_to_old_letter |-> EmptyMap, question_type |-> ""]

\* _LETTER_TO_INDEX membership and lookup (positions from 1)
InLetterToIndex(label) == label \in Letters4

\* the loops "out[_LETTER_TO_INDEX[label]] = text": the last item with the
\* label wins, a position no label names stays ""
FillByLabel(items) ==
    [i \in 1..4 |->
        LET at == {k \in DOMAIN items : StripUpper(items[k][1]) = LETTERS4[i]}
        IN  IF at = {} THEN ""
            ELSE items[CHOOSE k \in at : \A j \in at : j <= k][2]]

AnyText(out) == \E i \in DOMAIN out : out[i] # ""

\* whether _normalize_choices recognizes the shape (no warning appended)
ChoicesRecognized(raw_choices) ==
    /\ raw_choices.shape \in {"strings", "dicts", "pairs"}
    /\ Len(raw_choices.items) = 4
    /\ \/ raw_choices.shape = "strings"
       \/ AnyText(FillByLabel(raw_choices.items))

\* the texts taken by position whatever the shape, short lists padded
PadByPosition(raw_choices) ==
    [i \in 1..4 |->
        IF i <= Len(raw_choices.items) THEN raw_choices.items[i][2] ELSE ""]

\* _normalize_choices: the four texts returned
_normalize_choices(raw_choices) ==
    IF ~ChoicesRecognized(raw_choices) THEN <<"", "", "", "">>
    ELSE IF raw_choices.shape = "strings"
        THEN [i \in 1..4 |-> raw_choices.items[i][2]]
    ELSE FillByLabel(raw_choices.items)

\* whether _normalize_correct_index finds an answer (no warning appended)
CorrectResolved(q) ==
    \/ q.correct_index >= 0 /\ q.correct_index <= 3
    \/ q.correct.kind = "list" /\ q.correct.s # <<>>
         /\ InLetterToIndex(StripUpper(q.correct.s[1]))
    \/ q.correct.kind = "str" /\ Len(q.correct.s) = 1
         /\ InLetterToIndex(StripUpper(q.correct.s[1]))

\* _normalize_correct_index: the index returned, 0 when nothing resolves
_normalize_correct_index(q) ==
    IF q.correct_index >= 0 /\ q.correct_index <= 3 THEN q.correct_index
    ELSE IF q.correct.kind = "list" /\ q.correct.s # <<>>
            /\ InLetterToIndex(StripUpper(q.correct.s[1]))
        THEN IndexOf(LETTERS4, StripUpper(q.correct.s[1])) - 1
    ELSE IF q.correct.kind = "str" /\ Len(q.correct.s) = 1
            /\ InLetterToIndex(StripUpper(q.correct.s[1]))
        THEN IndexOf(LETTERS4, StripUpper(q.correct.s[1])) - 1
    ELSE 0

\* the id _normalize_passage_schema gives question idx (from 1) of passage pid
NormQid(pid, q, idx) ==
    IF q.id # NoQid THEN q.id
    ELSE IF q.number # 0
        THEN (IF pid.fmt = "P" THEN Qid("P-N", pid.n, q.number)
              ELSE IF pid.fmt = "N" THEN Qid("N-N", pid.n, q.number)
              ELSE Qid("N", 0, q.number))
    ELSE (IF pid.fmt = "P" THEN Qid("P-q", pid.n, idx)
          ELSE IF pid.fmt = "N" THEN Qid("N-q", pid.n, idx)
          ELSE Qid("q", 0, idx))

\* the choices synthesized for an insert_sentence question without any
InsertChoices ==
    [shape |-> "dicts",
     items |-> <<<<"A", "Insert at [A]">>, <<"B", "Insert at [B]">>,
                 <<"C", "Insert at [C]">>, <<"D", "Insert at [D]">>>>]

\* raw_choices of _normalize_passage_schema
RawChoices(q) ==
    IF q.question_type = "insert_sentence" /\ q.choices.shape = "none"
    THEN InsertChoices ELSE q.choices

\* _normalize_passage_schema(p): the normalized questions
_normalize_passage_schema(p) ==
    [id |-> p.id,
     questions |->
        [idx \in DOMAIN p.questions |->
            LET q == p.questions[idx]
            IN  [id |-> NormQid(p.id, q, idx),
                 stem |-> q.stem,
                 choices |-> _normalize_choices(RawChoices(q)),
                 correct_index |-> _normalize_correct_index(q),
                 meta |-> [NoMeta EXCEPT !.question_type =
                              IF q.question_type = "insert_sentence"
                              THEN "insert_sentence" ELSE ""]]]]

\* the question dict _passage_to_exam_set and the Q9 merge build from a
\* normalized question
ExamQuestion(qn, qid) ==
    LET ci == IF qn.correct_index < 0 \/ qn.correct_index > 3 THEN 0
              ELSE qn.correct_index
        correct_letter == LETTERS4[ci + 1]
    IN  [id |-> qid,
         type |-> "single",
         prompt |-> qn.stem,
         choices |-> [i \in 1..4 |-> <<LETTERS4[i], qn.choices[i]>>],
         correct |-> <<correct_letter>>,
         correct_index |-> ci,
         correct_letter |-> correct_letter,
         correct_letters |-> <<>>,
         meta |-> qn.meta]

_passage_to_exam_set(p_norm) ==
    [id |-> p_norm.id,
     questions |->
        [i \in DOMAIN p_norm.questions |->
            ExamQuestion(p_norm.questions[i], p_norm.questions[i].id)]]

\* _validate_passages_payload_loose: a bank file is [kind, passages] with
\* kind "ok" (an object with a 'passages' list), "notobject", "nolist" (no
\* 'passages' list) or "missing" (no file)
_validate_passages_payload_loose(payload) ==
    payload.kind = "ok" /\ payload.passages # <<>>

\* _norm_pid of a passage id or of an exam set's "reading-<pid>": both
\* formats with a number give "P<n>"
_norm_pid(pid) == IF pid.fmt \in {"P", "N"} THEN Pid("P", pid.n) ELSE pid

\* _ensure_seq(exam_set)
_ensure_seq(exam_set) ==
    [exam_set EXCEPT !.questions = EnsureSeqList(exam_set.questions)]

-----------------------------------------------------------------------------
(* Files and caches.  files[path] is the content on disk of "passages"     *)
(* (passages.json), "q9" (passages_q9.json), "q10" (q10_bank.json) and     *)
(* "keys" (answer_keys.json).  cache is _JSON_CACHE of exam_services, with *)
(* q10_repo's _Q10_BANK kept under "q10".                                  *)

Paths == {"passages", "q9", "q10", "keys"}

Readable(payload) == payload.kind \notin {"missing", "invalid"}

\* whether _read_json(path) returns (it raises on a missing or malformed
\* file that is not cached)
CanRead(cache, fs, path) == path \in DOMAIN cache \/ Readable(fs[path])

\* _read_json(path): the cached payload if any, else the file's
_read_json(cache, fs, path) ==
    IF path \in DOMAIN cache THEN cache[path] ELSE fs[path]

\* _JSON_CACHE after the reads of `paths` that returned
CacheAfter(cache, fs, paths) ==
    LET got == {p \in paths : CanRead(cache, fs, p)}
    IN  [p \in DOMAIN cache \cup got |-> _read_json(cache, fs, p)]

-----------------------------------------------------------------------------
(* Bank merger: services/exam_services.py, services/q10_repo.py *)

RECURSIVE StripLeft(_)
StripLeft(s) ==
    IF s # <<>> /\ Head(s) = " " THEN StripLeft(Tail(s)) ELSE s

RECURSIVE StripRight(_)
StripRight(s) ==
    IF s # <<>> /\ s[Len(s)] = " " THEN StripRight(SubSeq(s, 1, Len(s) - 1)) ELSE s

\* s.strip().upper() of a string
StrStripUpper(s) == MapUpper(StripRight(StripLeft(s)))

\* _count_passages, given the payload read (kind "missing" when the read
\* raised)
_count_passages(payload) ==
    IF payload.kind = "ok" /\ payload.passages # <<>>
    THEN Len(payload.passages) ELSE 1

\* the first passage of the Q9 bank whose normalized id is `want`, 0 if none
Q9Target(passages, want) ==
    LET at == {i \in DOMAIN passages :
                  /\ _norm_pid(passages[i].id).fmt # "none"
                  /\ _norm_pid(passages[i].id) = want}
    IN  IF at = {} THEN 0 ELSE CHOOSE i \in at : \A j \in at : i <= j

\* _load_q9_question_for_passage: <<q>> with q the normalized question, or
\* <<>> for None
_load_q9_question_for_passage(payload, passage_id) ==
    IF payload.kind # "ok" \/ payload.passages = <<>> THEN <<>>
    ELSE LET want == _norm_pid(passage_id)
             t == Q9Target(payload.passages, want)
         IN  IF want.fmt = "none" \/ t = 0 THEN <<>>
             ELSE LET qs == _normalize_passage_schema(payload.passages[t]).questions
                  IN  IF qs = <<>> THEN <<>> ELSE <<qs[1]>>

\* _lookup_q10_correct_from_answer_keys: the string returned, <<>> for None;
\* payload has kind "missing" when _read_json raised
_lookup_q10_correct_from_answer_keys(payload, passage_no) ==
    IF payload.kind # "list" THEN <<>>
    ELSE LET answers == KeyRow(payload, passage_no)
         IN  IF Len(answers) < 10 THEN <<>>
             ELSE IF answers[10].kind # "str" THEN <<>>
             ELSE StrStripUpper(answers[10].s)

\* get_q10_question(passage_no): <<item>> or <<>>; the last item of the
\* bank with the passage number wins (by_passage[pno] = item)
get_q10_question(bank, passage_no) ==
    LET at == {i \in DOMAIN bank.items : bank.items[i].passage_no = passage_no}
    IN  IF at = {} THEN <<>>
        ELSE <<bank.items[CHOOSE i \in at : \A j \in at : j <= i]>>

\* choices_out of _load_q10_question_for_passage: items with id and text
Q10Choices(choices_raw) ==
    SelectSeqBy(
        [i \in DOMAIN choices_raw |->
            <<StripUpper(choices_raw[i][1]), choices_raw[i][2]>>],
        {c \in {<<StripUpper(choices_raw[i][1]), choices_raw[i][2]>> :
                    i \in DOMAIN choices_raw} : c[1] # "" /\ c[2] # ""})

\* the outcome of _load_q10_question_for_passage:
\*   "none"  it returns None
\*   "raise" the list comprehension over correct_q10 = None raises TypeError
\*   "ok"    it returns the question
Q10Outcome(bank, keysPayload, passage_id) ==
    LET want == _norm_pid(passage_id)
        item == get_q10_question(bank, want.n)
    IN  IF want.fmt # "P" THEN "none"
        ELSE IF item = <<>> THEN "none"
        ELSE IF Len(Q10Choices(item[1].choices)) # 6 THEN "none"
        ELSE IF _lookup_q10_correct_from_answer_keys(keysPayload, want.n) = <<>>
            THEN "raise"
        ELSE "ok"

\* the question _load_q10_question_for_passage returns when it returns one
_load_q10_question_for_passage(bank, keysPayload, passage_id) ==
    LET want == _norm_pid(passage_id)
        item == get_q10_question(bank, want.n)[1]
    IN  [id |-> IF item.qid # NoQid THEN item.qid ELSE Qid("p_q", want.n, 10),
         type |-> "summary",
         prompt |-> item.prompt,
         choices |-> Q10Choices(item.choices),
         correct |-> _lookup_q10_correct_from_answer_keys(keysPayload, want.n),
         correct_index |-> -1,
         correct_letter |-> "",
         correct_letters |-> <<>>,
         meta |-> [NoMeta EXCEPT !.question_type = "summary"]]

HasId(qs, qid) == \E i \in DOMAIN qs : qs[i].id = qid

\* the Q9 merge of pick_full_exam_set_for_attempt
MergeQ9(exam_set, q9) ==
    IF q9 = <<>> THEN exam_set
    ELSE LET q9_out == ExamQuestion(q9[1], q9[1].id)
         IN  IF HasId(exam_set.questions, q9_out.id) THEN exam_set
             ELSE [exam_set EXCEPT !.questions = @ \o <<q9_out>>]

\* the Q10 merge of pick_full_exam_set_for_attempt
MergeQ10(exam_set, q10_out) ==
    IF HasId(exam_set.questions, q10_out.id) THEN exam_set
    ELSE [exam_set EXCEPT !.questions = @ \o <<q10_out>>]

MAX_PASSAGES == 12

\* pick_full_exam_set_for_attempt(seed), with pidx what
\* random.Random(seed).randrange(count) gave: [ok, exam_set, cache], ok
\* FALSE when an exception leaves the function
pick_full_exam_set_for_attempt(cache, fs, pidx) ==
    LET bank == IF CanRead(cache, fs, "passages")
                THEN _read_json(cache, fs, "passages")
                ELSE [kind |-> "missing", passages |-> <<>>]
        c1 == CacheAfter(cache, fs, {"passages"})
        failed(c) == [ok |-> FALSE, exam_set |-> [id |-> NoPid, questions |-> <<>>],
                      cache |-> c]
    IN  IF bank.kind = "notobject" THEN failed(c1)
        ELSE IF fs["passages"].kind = "missing" \/ ~CanRead(cache, fs, "passages")
            THEN failed(c1)
        ELSE IF ~_validate_passages_payload_loose(bank) THEN failed(c1)
        ELSE
        LET idx == pidx % Len(bank.passages)
            base == _passage_to_exam_set(
                        _normalize_passage_schema(bank.passages[idx + 1]))
            passage_id == _norm_pid(base.id)
            q9exists == fs["q9"].kind # "missing"
        IN  IF q9exists /\ ~CanRead(cache, fs, "q9") THEN failed(c1)
            ELSE
            LET c2 == IF q9exists THEN CacheAfter(c1, fs, {"q9"}) ELSE c1
                q9 == IF q9exists
                      THEN _load_q9_question_for_passage(
                               _read_json(c1, fs, "q9"), passage_id)
                      ELSE <<>>
                e9 == MergeQ9(base, q9)
            IN  IF passage_id.fmt # "P"
                    THEN [ok |-> TRUE, exam_set |-> _ensure_seq(e9), cache |-> c2]
                ELSE IF ~CanRead(c2, fs, "q10") \/ _read_json(c2, fs, "q10").kind # "ok"
                    THEN failed(c2)
                ELSE
                LET c3 == CacheAfter(c2, fs, {"q10"})
                    q10bank == _read_json(c2, fs, "q10")
                    reachesKeys ==
                        LET item == get_q10_question(q10bank, passage_id.n)
                        IN  item # <<>> /\ Len(Q10Choices(item[1].choices)) = 6
                    c4 == IF reachesKeys THEN CacheAfter(c3, fs, {"keys"}) ELSE c3
                    keysPayload == IF CanRead(c3, fs, "keys")
                                   THEN _read_json(c3, fs, "keys")
                                   ELSE NoKeys
                    outcome == Q10Outcome(q10bank, keysPayload, passage_id)
                IN  IF outcome = "raise" THEN failed(c4)
                    ELSE IF outcome = "none"
                        THEN [ok |-> TRUE, exam_set |-> _ensure_seq(e9), cache |-> c4]
                    ELSE [ok |-> TRUE,
                          exam_set |-> _ensure_seq(MergeQ10(e9,
                              _load_q10_question_for_passage(
                                  q10bank, keysPayload, passage_id))),
                          cache |-> c4]

\* count = min(_count_passages("mcq", None), MAX_PASSAGES)
PassageCount(cache, fs) ==
    Min(_count_passages(IF CanRead(cache, fs, "passages")
                        THEN _read_json(cache, fs, "passages")
                        ELSE [kind |-> "missing", passages |-> <<>>]),
        MAX_PASSAGES)

-----------------------------------------------------------------------------
(* Routes: routes/exam_routes.py, services/question_repo.py *)

\* _load_answer_keys(): the file read afresh; {} when it is missing or
\* malformed
_load_answer_keys(fs) ==
    IF Readable(fs["keys"]) THEN fs["keys"]
    ELSE [kind |-> "dict", rows |-> <<>>, map |-> EmptyMap]

\* _extract_answers_from_formdata(form); form maps a question id to the
\* values of its ans_<qid> fields
_extract_answers_from_formdata(form) ==
    LET kept == {k \in DOMAIN form : StripUpperNonEmpty(form[k]) # <<>>}
    IN  [k \in kept |-> StripUpperNonEmpty(form[k])]

\* question_repo._norm_type
_norm_type(raw) ==
    IF raw \in {"single", "radio", "one"} THEN "single"
    ELSE IF raw \in {"multi", "multiple", "multiple_answer", "checkbox"} THEN "multi"
    ELSE IF raw \in {"summary", "q10", "prose_summary"} THEN "summary"
    ELSE "single"

\* question_repo.normalize_question, on the fields the model keeps
normalize_question(q) ==
    LET typ == _norm_type(IF q.type # "" THEN q.type ELSE q.meta.question_type)
        pairs == SelectSeqBy(
                     [i \in DOMAIN q.choices |->
                         <<StripUpper(q.choices[i][1]), q.choices[i][2]>>],
                     {c \in {<<StripUpper(q.choices[i][1]), q.choices[i][2]>> :
                                i \in DOMAIN q.choices} : c[1] # "" /\ c[2] # ""})
        letter == IF q.correct_letter # "" THEN StripUpper(q.correct_letter)
                  ELSE IF q.correct_index >= 0 /\ q.correct_index < 4
                      THEN LETTERS4[q.correct_index + 1]
                  ELSE ""
    IN  [q EXCEPT !.type = typ, !.choices = pairs,
                  !.correct_letter = letter, !.correct_letters = <<>>]

\* _clamp
_clamp(n, lo, hi) == Max(lo, Min(hi, n))

\* the questions result() grades
ResultQuestions(attempt, exam_set) ==
    LET questions_all ==
            [i \in DOMAIN exam_set.questions |->
                normalize_question(exam_set.questions[i])]
    IN  IF attempt.mode = "single" /\ questions_all # <<>>
        THEN <<questions_all[_clamp(attempt.single_index, 1, Len(questions_all))]>>
        ELSE questions_all

\* the report result() renders for the attempt, whose shuffled view is
\* exam_set
ResultReport(attempt, exam_set, fs) ==
    grade(ResultQuestions(attempt, exam_set), attempt.answers,
          _build_correct_answers(exam_set, _load_answer_keys(fs)))

\* answers = updates: the stored map replaced by the form's
ReplaceAnswers(answers, updates) == updates

\* answers.update(updates) of save_and_nav, submit and autosubmit
StoreAnswers(answers, updates) ==
    IF DOMAIN updates = {} THEN answers ELSE DictUpdate(answers, updates)

-----------------------------------------------------------------------------
(* The data files of the model *)

Strings4(a, b, c, d) ==
    [shape |-> "strings", items |-> <<<<"", a>>, <<"", b>>, <<"", c>>, <<"", d>>>>]

Labelled(shape, items) == [shape |-> shape, items |-> items]

NoChoices == [shape |-> "none", items |-> <<>>]

RawQuestion(id, number, choices, ci, correct, qtype) ==
    [id |-> id, number |-> number, stem |-> "stem", choices |-> choices,
     correct_index |-> ci, correct |-> correct, question_type |-> qtype]

\* passages.json: passage "P1" with two questions, passage "2" with two
\* questions numbered 3 and 5
PassagesFile ==
    [kind |-> "ok",
     passages |-> <<
        [id |-> Pid("P", 1),
         questions |-> <<
            RawQuestion(Qid("P-Q", 1, 1), 0,
                Strings4("t1", "t2", "t3", "t4"), 1, NoneVal, ""),
            RawQuestion(Qid("P-Q", 1, 2), 0,
                Labelled("pairs", <<<<"b", "u2">>, <<"A", "u1">>,
                                    <<"C", "u3">>, <<"D", "u3">>>>),
                -1, StrVal(<<"c">>), "")>>],
        [id |-> Pid("N", 2),
         questions |-> <<
            RawQuestion(NoQid, 3,
                Labelled("dicts", <<<<"A", "v1">>, <<"B", "v2">>,
                                    <<"C", "v3">>, <<"D", "v4">>>>),
                -1, ListVal(<<"D">>), ""),
            RawQuestion(NoQid, 5,
                Strings4("w1", "w2", "w3", "w4"), 0, NoneVal, "")>>]>>]

\* passages.json with n passages "1".."n" of one question each
BankOf(n) ==
    [kind |-> "ok",
     passages |-> [i \in 1..n |->
        [id |-> Pid("N", i),
         questions |-> <<RawQuestion(NoQid, 1, Strings4("t1", "t2", "t3", "t4"),
                                     0, NoneVal, "")>>]]]

Q9Missing == [kind |-> "missing", passages |-> <<>>]

\* passages_q9.json with an insert-sentence question for passage 1
Q9File(ci, correct) ==
    [kind |-> "ok",
     passages |-> <<
        [id |-> Pid("N", 1),
         questions |-> <<
            RawQuestion(Qid("P-Q", 1, 9), 0, NoChoices, ci, correct,
                        "insert_sentence")>>]>>]

\* q10_bank.json with a six-choice summary question for passage 1 and a
\* five-choice one for passage 3
Q10File ==
    [kind |-> "ok",
     items |-> <<
        [passage_no |-> 1, qid |-> Qid("p_q", 1, 10), prompt |-> "summary",
         choices |-> <<<<"A", "s1">>, <<"B", "s2">>, <<"C", "s3">>,
                       <<"D", "s4">>, <<"E", "s5">>, <<"F", "s6">>>>],
        [passage_no |-> 3, qid |-> NoQid, prompt |-> "summary",
         choices |-> <<<<"A", "s1">>, <<"B", "s2">>, <<"C", "s3">>,
                       <<"D", "s4">>, <<"E", "s5">>>>]>>]

L(c) == StrVal(<<c>>)

\* answer_keys.json, list schema: passage 1 with ten answers, the tenth as
\* given; passage 2 with three answers
KeysList(tenth) ==
    [kind |-> "list",
     rows |-> <<
        [id |-> 1,
         answers |-> <<L("D"), L("C"), L("A"), L("A"), L("A"),
                       L("A"), L("A"), L("A"), L("A"), tenth>>],
        [id |-> 2, answers |-> <<L("B"), L("B"), L("A")>>]>>,
     map |-> EmptyMap]

\* answer_keys.json, list schema, passage 1 with two answers only
KeysShort ==
    [kind |-> "list",
     rows |-> <<[id |-> 1, answers |-> <<L("D"), L("C")>>]>>,
     map |-> EmptyMap]

\* answer_keys.json, flat legacy map
KeysLegacy ==
    [kind |-> "dict", rows |-> <<>>,
     map |-> [k \in {Qid("q", 0, 1), Qid("P-Q", 1, 1)} |->
                 IF k.fmt = "q" THEN L("B") ELSE L("A")]]

\* answer_keys.json, list schema, without a row for passage 1
KeysOther ==
    [kind |-> "list",
     rows |-> <<[id |-> 2, answers |-> <<L("B"), L("B"), L("A")>>]>>,
     map |-> EmptyMap]

\* answer_keys.json that is no JSON
KeysInvalid == [kind |-> "invalid", rows |-> <<>>, map |-> EmptyMap]

KeysFiles ==
    {NoKeys, KeysList(StrVal(<<"A", "B", "D">>)), KeysList(ListVal(<<"A", "B">>)),
     KeysList(StrVal(<<" ">>)), KeysShort, KeysOther, KeysLegacy, KeysInvalid}

Q9Files ==
    {Q9Missing, Q9File(2, NoneVal), Q9File(-1, NoneVal),
     Q9File(-1, StrVal(<<"Z">>))}

FileSets ==
    {[p \in Paths |->
        CASE p = "passages" -> PassagesFile
          [] p = "q9" -> q9
          [] p = "q10" -> Q10File
          [] p = "keys" -> k] : q9 \in Q9Files, k \in KeysFiles}

-----------------------------------------------------------------------------
(* Attempt store: create_attempt, get_exam_set_for_attempt *)

\* mode_n of create_attempt
ModeN(mode) == IF mode \in {"full", "single"} THEN mode ELSE "full"

\* single_index_i of create_attempt
SingleIndexI(single_index) == Max(1, Min(10, single_index))

\* the dict create_attempt stores in ATTEMPTS; shuffled_exam_set is <<>> for
\* None and <<e>> for the cached view e
NewAttempt(seed, raw_exam_set, mode, single_index) ==
    [submitted |-> FALSE,
     raw_exam_set |-> raw_exam_set,
     shuffle_seed |-> seed,
     passage_seed |-> seed,
     mode |-> ModeN(mode),
     single_index |-> SingleIndexI(single_index),
     answers |-> EmptyMap,
     shuffled_exam_set |-> <<>>]

\* the view shuffled in place, the raw exam set being the object shuffled
CacheInPlace(attempt, shuffled) ==
    [attempt EXCEPT !.shuffled_exam_set = <<shuffled>>, !.raw_exam_set = shuffled]

\* attempt["shuffled_exam_set"] = shuffled
CacheShuffled(attempt, shuffled) ==
    [attempt EXCEPT !.shuffled_exam_set = <<shuffled>>]

LifeOrderList ==
    <<<<1, 2, 3, 4>>, <<2, 3, 4, 1>>, <<4, 3, 2, 1>>, <<2, 1, 3, 4>>,
      <<3, 1, 4, 2>>, <<1, 3, 2, 4>>>>

LifeOrders == {LifeOrderList[i] : i \in 1..Min(MaxOrders, Len(LifeOrderList))}

\* get_exam_set_for_attempt(attempt_id): the cached view, or the view
\* shuffled now and cached
get_exam_set_for_attempt(a) ==
    \/ /\ ATTEMPTS[a].shuffled_exam_set # <<>>
       /\ UNCHANGED <<ATTEMPTS, rngShuffle>>
    \/ /\ ATTEMPTS[a].shuffled_exam_set = <<>>
       /\ LET raw == ATTEMPTS[a].raw_exam_set
              seed == ATTEMPTS[a].shuffle_seed
          IN  \E os \in OrdersFor(rngShuffle, raw, seed, LifeOrders) :
                /\ ATTEMPTS' = [ATTEMPTS EXCEPT ![a] =
                      CacheShuffled(@, _ensure_seq(shuffle_exam_set(raw, os)))]
                /\ rngShuffle' = MemoAfter(rngShuffle, raw, seed, os)

-----------------------------------------------------------------------------
(* Attempt life cycle: the handlers of routes/exam_routes.py *)

Threads == 1..MaxThreads

\* the mode and single_index fields of the start form
StartInputs == {<<"full", 1>>, <<"single", 2>>, <<"bogus", 11>>}

\* view is <<>> or <<e>>, e the exam set get_exam_set_for_attempt returned to
\* the request the thread serves
IdleThread ==
    [pc |-> "idle", tmp |-> 0, attempt_id |-> 0, mode |-> "full", single_index |-> 1,
     view |-> <<>>]

\* history: n requests with a form served; sent[a][q] the value of the last
\* request for attempt a that carried an answer for question q; submitted
\* the attempts a submit or autosubmit was served for; scored[a] the report
\* result() rendered first after that
NoHist ==
    [n |-> 0, sent |-> EmptyMap, submitted |-> {}, scored |-> EmptyMap]

\* what an ans_<qid> field of a submitted form may hold
FormValues == {<<"A">>, <<"A", "B">>, <<" ">>}

\* the forms a page of attempt a may post: no answer field, or the answer
\* field of one question
FormsFor(a) ==
    {EmptyMap} \cup
    {[k \in {ATTEMPTS[a].raw_exam_set.questions[i].id} |-> v] :
        i \in DOMAIN ATTEMPTS[a].raw_exam_set.questions, v \in FormValues}

\* the fields of a form that carry an answer (some value is not blank)
Carried(form) == {k \in DOMAIN form : \E i \in DOMAIN form[k] : form[k][i] # " "}

\* start(): create_attempt, "store.ATTEMPT_COUNTER += 1" reads the counter
StartLoad(t, inputs) ==
    /\ threads[t].pc = "idle"
    /\ \E inp \in inputs :
          threads' = [threads EXCEPT ![t] =
              [@ EXCEPT !.pc = "load", !.tmp = ATTEMPT_COUNTER,
                        !.mode = inp[1], !.single_index = inp[2]]]
    /\ UNCHANGED <<files, jsonCache, ATTEMPTS, ATTEMPT_COUNTER, rngShuffle,
                   rngPassage, hist, studyVars>>

\* "store.ATTEMPT_COUNTER += 1" writes the counter
StartStore(t) ==
    /\ threads[t].pc = "load"
    /\ ATTEMPT_COUNTER' = threads[t].tmp + 1
    /\ threads' = [threads EXCEPT ![t].pc = "store"]
    /\ UNCHANGED <<files, jsonCache, ATTEMPTS, rngShuffle, rngPassage,
                   hist, studyVars>>

\* attempt_id = str(store.ATTEMPT_COUNTER)
StartReadId(t) ==
    /\ threads[t].pc = "store"
    /\ threads' = [threads EXCEPT ![t].pc = "id", ![t].attempt_id = ATTEMPT_COUNTER]
    /\ UNCHANGED <<files, jsonCache, ATTEMPTS, ATTEMPT_COUNTER, rngShuffle,
                   rngPassage, hist, studyVars>>

\* a generator seeded from the clock: any index, whatever was drawn before
FreshIndex(memo, seed, count, pidx) == TRUE

\* random.Random(seed).randrange(count) is a function of (seed, count)
SeededIndex(memo, seed, count, pidx) ==
    <<seed, count>> \in DOMAIN memo => memo[<<seed, count>>] = pidx

\* ATTEMPTS[attempt_id] = {...}
Register(attempts, attempt_id, attempt) == DictPut(attempts, attempt_id, attempt)

\* an attempt without questions registered before the exam set is loaded
PartialCreate(attempts, attempt_id, seed) ==
    Register(attempts, attempt_id,
             NewAttempt(seed, [id |-> NoPid, questions |-> <<>>], "full", 1))

\* the registry after pick_full_exam_set_for_attempt raised: the exception
\* leaves create_attempt before "ATTEMPTS[attempt_id] = {...}"
FailedCreate(attempts, attempt_id, seed) == attempts

\* the rest of create_attempt: the seed, the raw exam set, the registry
\* entry; an exception of pick_full_exam_set_for_attempt ends the request
StartCreate(t) ==
    /\ threads[t].pc = "id"
    /\ \E seed \in 1..MaxSeed :
       LET count == PassageCount(jsonCache, files)
       IN  \E pidx \in 0..(count - 1) :
           /\ SeededIndex(rngPassage, seed, count, pidx)
           /\ rngPassage' = DictPut(rngPassage, <<seed, count>>, pidx)
           /\ LET r == pick_full_exam_set_for_attempt(jsonCache, files, pidx)
              IN  /\ jsonCache' = r.cache
                  /\ IF r.ok
                     THEN /\ ATTEMPTS' = Register(ATTEMPTS, threads[t].attempt_id,
                                 NewAttempt(seed, _ensure_seq(r.exam_set), "full", 1))
                          /\ threads' = [threads EXCEPT ![t].pc = "created"]
                     ELSE /\ threads' = [threads EXCEPT ![t].pc = "failed"]
                          /\ ATTEMPTS' = FailedCreate(ATTEMPTS,
                                             threads[t].attempt_id, seed)
    /\ UNCHANGED <<files, ATTEMPT_COUNTER, rngShuffle, hist, studyVars>>

\* start() after create_attempt: attempt["mode"], attempt["single_index"]
StartSetMode(t) ==
    /\ threads[t].pc = "created"
    /\ ATTEMPTS' = [ATTEMPTS EXCEPT
          ![threads[t].attempt_id].mode = threads[t].mode,
          ![threads[t].attempt_id].single_index = threads[t].single_index]
    /\ threads' = [threads EXCEPT ![t].pc = "done"]
    /\ UNCHANGED <<files, jsonCache, ATTEMPT_COUNTER, rngShuffle, rngPassage,
                   hist, studyVars>>

\* the body shared by save_and_nav, submit and autosubmit
PostAnswers(a, form, kind) ==
    /\ hist.n < MaxRequests
    /\ ATTEMPTS' = [ATTEMPTS EXCEPT ![a].answers =
          StoreAnswers(@, _extract_answers_from_formdata(form))]
    /\ hist' = [hist EXCEPT
          !.n = @ + 1,
          !.sent = DictPut(@, a,
                      [q \in DOMAIN DictGet(@, a, EmptyMap) \cup Carried(form) |->
                          IF q \in Carried(form) THEN form[q] ELSE @[a][q]]),
          !.submitted = IF kind = "save" THEN @ ELSE @ \cup {a}]
    /\ UNCHANGED <<files, jsonCache, ATTEMPT_COUNTER, threads, rngShuffle,
                   rngPassage, studyVars>>

save_and_nav(a) == \E form \in FormsFor(a) : PostAnswers(a, form, "save")

submit(a) == \E form \in FormsFor(a) : PostAnswers(a, form, "submit")

autosubmit(a) == \E form \in FormsFor(a) : PostAnswers(a, form, "autosubmit")

\* exam(): the page of the shuffled view
exam(a) ==
    /\ get_exam_set_for_attempt(a)
    /\ UNCHANGED <<files, jsonCache, ATTEMPT_COUNTER, threads, rngPassage,
                   hist, studyVars>>

\* tutor() with an attempt id and a question id
tutor(a) ==
    /\ get_exam_set_for_attempt(a)
    /\ UNCHANGED <<files, jsonCache, ATTEMPT_COUNTER, threads, rngPassage,
                   hist, studyVars>>

\* result(): grades the stored answers and renders the report
result(a) ==
    /\ get_exam_set_for_attempt(a)
    /\ LET report == ResultReport(ATTEMPTS'[a], ATTEMPTS'[a].shuffled_exam_set[1],
                                  files)
       IN  hist' = [hist EXCEPT
                 !.scored = IF a \in hist.submitted /\ a \notin DOMAIN hist.scored
                            THEN DictPut(@, a, report) ELSE @]
    /\ UNCHANGED <<files, jsonCache, ATTEMPT_COUNTER, threads, rngPassage,
                   studyVars>>

\* scale_reading_score not called: no arguments, no result; earlier holds
\* the raw points and the results of the calls before the last
NoScale ==
    [score_points |-> 0, total_points |-> 0, scaled |-> <<>>, called |-> FALSE,
     earlier |-> <<>>]

\* pick_full_exam_set_for_attempt not called: no seed, no index
NoPick ==
    [seed |-> 0, count |-> 0, passage_index |-> -1, ok |-> FALSE,
     exam_set_id |-> NoPid, called |-> FALSE]

\* _normalize_choices not called: no argument, no result
NoNorm ==
    [raw_choices |-> NoChoices, question_type |-> "", choices |-> <<>>,
     warned |-> FALSE, exam_choices |-> <<>>, called |-> FALSE]

StudyIdle ==
    /\ inE = <<>> /\ inSeed = 0 /\ out1 = <<>> /\ out2 = <<>>
    /\ resolved = <<>> /\ graded = <<>> /\ phase = "off"
    /\ scale = NoScale
    /\ pick = NoPick
    /\ normed = NoNorm

LifeInit ==
    /\ jsonCache = EmptyMap
    /\ ATTEMPTS = EmptyMap
    /\ ATTEMPT_COUNTER = 0
    /\ threads = [t \in Threads |-> IdleThread]
    /\ rngShuffle = EmptyMap
    /\ rngPassage = EmptyMap
    /\ hist = NoHist

-----------------------------------------------------------------------------
(* Specification Spec: the life of one attempt.  One start() request, then *)
(* any requests on the attempt, each handler running to its end.           *)

LifeFileSets ==
    {f \in FileSets :
        \/ f["q9"] = Q9Missing /\ f["keys"] = KeysList(StrVal(<<"A", "B", "D">>))
        \/ f["q9"] = Q9Missing /\ f["keys"] = KeysLegacy}
    \cup
    {[f EXCEPT !["passages"] = BankOf(1)] :
        f \in {g \in FileSets :
                  /\ g["q9"] = Q9File(2, NoneVal)
                  /\ g["keys"] = KeysList(StrVal(<<"A", "B", "D">>))}}

\* the attempts whose id a start() request has returned in its redirect
Started ==
    {a \in DOMAIN ATTEMPTS :
        \E t \in Threads : threads[t].pc = "done" /\ threads[t].attempt_id = a}

Init ==
    /\ files \in LifeFileSets
    /\ LifeInit
    /\ StudyIdle

Next ==
    \/ StartLoad(1, StartInputs)
    \/ StartStore(1)
    \/ StartReadId(1)
    \/ StartCreate(1)
    \/ StartSetMode(1)
    \/ \E a \in Started : save_and_nav(a)
    \/ \E a \in Started : submit(a)
    \/ \E a \in Started : autosubmit(a)
    \/ \E a \in Started : exam(a)
    \/ \E a \in Started : tutor(a)
    \/ \E a \in Started : result(a)

Spec == Init /\ [][Next]_vars

-----------------------------------------------------------------------------
(* Specification SpecStart: concurrent start() requests on any file set,   *)
(* each in its worker thread, interleaved between the reads and writes of  *)
(* the attempt counter and the registry.                                   *)

InitStart ==
    /\ files \in FileSets
    /\ LifeInit
    /\ StudyIdle

NextStart ==
    \/ \E t \in Threads : StartLoad(t, {<<"full", 1>>})
    \/ \E t \in Threads : StartStore(t)
    \/ \E t \in Threads : StartReadId(t)
    \/ \E t \in Threads : StartCreate(t)
    \/ \E t \in Threads : StartSetMode(t)

SpecStart == InitStart /\ [][NextStart]_vars

-----------------------------------------------------------------------------
(* Specification SpecServe: concurrent read requests on one attempt.  The  *)
(* attempt is the one a start() request created from the files; exam(),    *)
(* tutor() and result() are sync handlers, each served by a worker thread, *)
(* interleaved between the lookup of the cached view and its store; the    *)
(* answer-key file may be edited on disk meanwhile.                        *)

\* the stored answers of the attempt: none, or the first question answered
ServeAnswers(exam_set) ==
    {EmptyMap, [k \in {exam_set.questions[1].id} |-> <<"A">>]}

InitServe ==
    /\ files \in LifeFileSets
    /\ \E seed \in 1..MaxSeed :
       \E pidx \in 0..(PassageCount(EmptyMap, files) - 1) :
          LET r == pick_full_exam_set_for_attempt(EmptyMap, files, pidx)
              raw == _ensure_seq(r.exam_set)
          IN  /\ r.ok
              /\ jsonCache = r.cache
              /\ rngPassage =
                    DictPut(EmptyMap, <<seed, PassageCount(EmptyMap, files)>>, pidx)
              /\ \E answers \in ServeAnswers(raw) :
                    ATTEMPTS = Register(EmptyMap, 1,
                        [NewAttempt(seed, raw, "full", 1) EXCEPT !.answers = answers])
    /\ ATTEMPT_COUNTER = 1
    /\ threads = [t \in Threads |-> IdleThread]
    /\ rngShuffle = EmptyMap
    /\ hist = NoHist
    /\ StudyIdle

\* get_exam_set_for_attempt, up to "if isinstance(cached, dict): return
\* cached": the cached view is returned, or the cache was found empty
ViewLookup(t, a) ==
    /\ threads[t].pc = "idle"
    /\ threads' = [threads EXCEPT ![t] =
          IF ATTEMPTS[a].shuffled_exam_set # <<>>
          THEN [@ EXCEPT !.pc = "cached", !.attempt_id = a,
                         !.view = ATTEMPTS[a].shuffled_exam_set]
          ELSE [@ EXCEPT !.pc = "miss", !.attempt_id = a]]
    /\ UNCHANGED <<files, jsonCache, ATTEMPTS, ATTEMPT_COUNTER, rngShuffle,
                   rngPassage, hist, studyVars>>

\* get_exam_set_for_attempt after an empty cache: the view is shuffled,
\* stored in the attempt and returned
ViewShuffle(t) ==
    /\ threads[t].pc = "miss"
    /\ LET a == threads[t].attempt_id
           raw == ATTEMPTS[a].raw_exam_set
           seed == ATTEMPTS[a].shuffle_seed
       IN  \E os \in OrdersFor(rngShuffle, raw, seed, LifeOrders) :
             LET shuffled == _ensure_seq(shuffle_exam_set(raw, os))
             IN  /\ ATTEMPTS' = [ATTEMPTS EXCEPT ![a] = CacheShuffled(@, shuffled)]
                 /\ rngShuffle' = MemoAfter(rngShuffle, raw, seed, os)
                 /\ threads' = [threads EXCEPT ![t].pc = "shuffled",
                                               ![t].view = <<shuffled>>]
    /\ UNCHANGED <<files, jsonCache, ATTEMPT_COUNTER, rngPassage, hist, studyVars>>

\* exam() and tutor() after get_exam_set_for_attempt: the page is rendered
ServePage(t) ==
    /\ threads[t].pc \in {"cached", "shuffled"}
    /\ threads' = [threads EXCEPT ![t].pc = "idle", ![t].view = <<>>]
    /\ UNCHANGED <<files, jsonCache, ATTEMPTS, ATTEMPT_COUNTER, rngShuffle,
                   rngPassage, hist, studyVars>>

\* result() after get_exam_set_for_attempt: the stored answers are graded
\* against the answers resolved now; the history keeps the first report
ServeResult(t) ==
    /\ threads[t].pc \in {"cached", "shuffled"}
    /\ LET a == threads[t].attempt_id
           report == ResultReport(ATTEMPTS[a], threads[t].view[1], files)
       IN  hist' = [hist EXCEPT
                 !.scored = IF a \in DOMAIN @ THEN @ ELSE DictPut(@, a, report)]
    /\ threads' = [threads EXCEPT ![t].pc = "idle", ![t].view = <<>>]
    /\ UNCHANGED <<files, jsonCache, ATTEMPTS, ATTEMPT_COUNTER, rngShuffle,
                   rngPassage, studyVars>>

\* what an edit may leave in data/answer_keys.json: the list schema, the
\* flat legacy map, or no file
ServeKeys == {KeysList(StrVal(<<"A", "B", "D">>)), KeysLegacy, NoKeys}

\* data/answer_keys.json is replaced on disk
EditKeys ==
    /\ \E k \in ServeKeys :
          /\ k # files["keys"]
          /\ files' = [files EXCEPT !["keys"] = k]
    /\ UNCHANGED <<jsonCache, ATTEMPTS, ATTEMPT_COUNTER, threads, rngShuffle,
                   rngPassage, hist, studyVars>>

NextServe ==
    \/ \E t \in Threads : \E a \in DOMAIN ATTEMPTS : ViewLookup(t, a)
    \/ \E t \in Threads : ViewShuffle(t)
    \/ \E t \in Threads : ServePage(t)
    \/ \E t \in Threads : ServeResult(t)
    \/ EditKeys

SpecServe == InitServe /\ [][NextServe]_vars

-----------------------------------------------------------------------------
(* Specification SpecStudy: the scoring pipeline on one exam set.  An exam *)
(* set and a seed are drawn; shuffle_exam_set is invoked twice on them,    *)
(* the resolver builds the correct answers of the first view, and grade    *)
(* scores one submission, as result() does.                                *)

\* a question of an exam set, with its choices labelled as given
StudyQuestion(id, labels, texts, correct, type) ==
    [id |-> id,
     type |-> type,
     prompt |-> "stem",
     choices |-> [i \in 1..4 |-> <<labels[i], texts[i]>>],
     correct |-> correct,
     correct_index |-> IF Len(correct) = 1 /\ correct[1] \in Letters4
                       THEN IndexOf(LETTERS4, correct[1]) - 1 ELSE -1,
     correct_letter |-> IF Len(correct) = 1 THEN correct[1] ELSE "",
     correct_letters |-> IF type = "multi" THEN correct ELSE <<>>,
     meta |-> NoMeta]

StudyTexts == <<"t1", "t2", "t3", "t4">>

\* exam sets of passage P1 with one 4-choice question: the id formats, then
\* several correct letters, a repeated text, labels out of order, and no
\* correct letter
StudySets ==
    {[id |-> Pid("P", 1),
      questions |-> <<StudyQuestion(Qid(f, 1, 2), LETTERS4, StudyTexts,
                                    <<"B">>, "single")>>] :
        f \in {"P-Q", "N-N", "p_q", "Q", "N", "w"}}
    \cup
    {[id |-> Pid("P", 1), questions |-> <<q>>] :
        q \in {StudyQuestion(Qid("P-Q", 1, 3), LETTERS4, StudyTexts,
                             <<"A", "C">>, "multi"),
               StudyQuestion(Qid("P-Q", 1, 3), LETTERS4,
                             <<"t1", "t2", "t2", "t4">>, <<"D", "B">>, "multi"),
               StudyQuestion(Qid("P-Q", 1, 1), <<"D", "C", "B", "A">>, StudyTexts,
                             <<"c">>, "single"),
               StudyQuestion(Qid("P-Q", 1, 1), LETTERS4, StudyTexts,
                             <<>>, "single")}}

\* the letter k places after l in A..D
Rot(l, k) == LETTERS4[((IndexOf(LETTERS4, l) - 1 + k) % 4) + 1]

\* answer_keys.json, list schema: passage 1 with ten answers, the first nine
\* the letters from l on, and passage 2 with five
StudyKeys(l) ==
    [kind |-> "list",
     rows |-> <<
        [id |-> 1,
         answers |-> [k \in 1..10 |->
                        IF k = 10 THEN StrVal(<<"A", "B", "D">>)
                        ELSE L(Rot(l, k - 1))]],
        [id |-> 2, answers |-> [k \in 1..5 |-> L(Rot(l, k))]]>>,
     map |-> EmptyMap]

\* correct values in the other literal forms: a digit string, an integer,
\* a run of digits, a letter list, and values that name no letter of A..F
StudyValues ==
    {StrVal(<<"2">>), IntVal(<<"0">>), StrVal(<<"1", "2">>), ListVal(<<"a", "C">>),
     StrVal(<<"Z">>), ListVal(<<"A", "Z">>)}

\* answer_keys.json, list schema: passage 1 with nine answers, all v
StudyKeysAll(v) ==
    [kind |-> "list",
     rows |-> <<[id |-> 1, answers |-> [k \in 1..9 |-> v]]>>,
     map |-> EmptyMap]

StudyKeysFiles ==
    {NoKeys, KeysLegacy} \cup {StudyKeys(l) : l \in Letters4}
        \cup {StudyKeysAll(v) : v \in StudyValues}

StudyFileSets ==
    {f \in [Paths -> {PassagesFile, Q9Missing, Q10File} \cup StudyKeysFiles] :
        /\ f["passages"] = PassagesFile
        /\ f["q9"] = Q9Missing
        /\ f["q10"] = Q10File
        /\ f["keys"] \in StudyKeysFiles}

\* the exam sets create_attempt assembles from the files
PickedSets(fs) ==
    {_ensure_seq(pick_full_exam_set_for_attempt(EmptyMap, fs, pidx).exam_set) :
        pidx \in {i \in 0..(PassageCount(EmptyMap, fs) - 1) :
                     pick_full_exam_set_for_attempt(EmptyMap, fs, i).ok}}

\* what a submission may answer to one question
StudyAnswers == {<<"A">>, <<"B">>, <<"C">>, <<"D">>, <<"A", "C">>}

InitStudy ==
    /\ files \in StudyFileSets
    /\ LifeInit
    /\ inE \in StudySets \cup PickedSets(files)
    /\ inSeed \in 1..MaxSeed
    /\ out1 = <<>> /\ out2 = <<>> /\ resolved = <<>> /\ graded = <<>>
    /\ phase = "in"
    /\ scale = NoScale
    /\ pick = NoPick
    /\ normed = NoNorm

\* shuffle_exam_set(inE, inSeed), the first invocation
Shuffle1 ==
    /\ phase = "in"
    /\ \E os \in OrdersFor(rngShuffle, inE, inSeed, Perms4) :
          /\ out1' = <<shuffle_exam_set(inE, os)>>
          /\ inE' = ArgumentAfter(inE, shuffle_exam_set(inE, os))
          /\ rngShuffle' = MemoAfter(rngShuffle, inE, inSeed, os)
    /\ phase' = "shuffled1"
    /\ UNCHANGED <<files, jsonCache, rngPassage, lifeVars, inSeed, out2,
                   resolved, graded, scale, pick, normed>>

\* shuffle_exam_set(inE, inSeed), the second invocation
Shuffle2 ==
    /\ phase = "shuffled1"
    /\ \E os \in OrdersFor(rngShuffle, inE, inSeed, Perms4) :
          /\ out2' = <<shuffle_exam_set(inE, os)>>
          /\ inE' = ArgumentAfter(inE, shuffle_exam_set(inE, os))
          /\ rngShuffle' = MemoAfter(rngShuffle, inE, inSeed, os)
    /\ phase' = "shuffled2"
    /\ UNCHANGED <<files, jsonCache, rngPassage, lifeVars, inSeed, out1,
                   resolved, graded, scale, pick, normed>>

\* _build_correct_answers(exam_set) on the shuffled view
Resolve ==
    /\ phase = "shuffled2"
    /\ resolved' = <<_build_correct_answers(out1[1], _load_answer_keys(files))>>
    /\ phase' = "resolved"
    /\ UNCHANGED <<files, jsonCache, rngShuffle, rngPassage, lifeVars, inE,
                   inSeed, out1, out2, graded, scale, pick, normed>>

\* grade(questions, answers, correct_answers) as result() calls it, on a
\* submission answering one question, or none
Grade ==
    /\ phase = "resolved"
    /\ \E answers \in {EmptyMap} \cup
            {[k \in {out1[1].questions[i].id} |-> v] :
                i \in DOMAIN out1[1].questions, v \in StudyAnswers} :
          graded' = <<[answers |-> answers,
                       report |-> grade(
                           [i \in DOMAIN out1[1].questions |->
                               normalize_question(out1[1].questions[i])],
                           answers, resolved[1])]>>
    /\ phase' = "graded"
    /\ UNCHANGED <<files, jsonCache, rngShuffle, rngPassage, lifeVars, inE,
                   inSeed, out1, out2, resolved, scale, pick, normed>>

NextStudy ==
    \/ Shuffle1
    \/ Shuffle2
    \/ Resolve
    \/ Grade

SpecStudy == InitStudy /\ [][NextStudy]_vars

-----------------------------------------------------------------------------
(* Specification SpecScore: the grader on its own.  A question, the map of *)
(* resolved correct answers and the arguments of scale_reading_score are   *)
(* drawn; grade scores one submission and scale_reading_score is applied.  *)

\* correct letters: one, several, none, and a value naming no letter
ScoreCorrects == {<<"B">>, <<"A", "C">>, <<"C", "A", "D">>, <<>>, <<"Z">>}

\* the questions graded: each type, with embedded correct letters
ScoreQuestions ==
    {StudyQuestion(Qid("P-Q", 1, 1), LETTERS4, StudyTexts, c, type) :
        c \in ScoreCorrects \ {<<"Z">>}, type \in {"single", "multi", "summary"}}

\* the correct_answers maps: no entry for the question, or one
ScoreMaps ==
    {EmptyMap} \cup
    {[k \in {Qid("P-Q", 1, 1)} |-> c] : c \in ScoreCorrects \ {<<>>}}

InitScore ==
    /\ files \in {f \in StudyFileSets : f["keys"] = NoKeys}
    /\ LifeInit
    /\ \E q \in ScoreQuestions :
          /\ inE = [id |-> Pid("P", 1), questions |-> <<q>>]
          /\ out1 = <<inE>>
    /\ inSeed = 0
    /\ out2 = <<>>
    /\ resolved \in {<<m>> : m \in ScoreMaps}
    /\ graded = <<>>
    /\ phase = "resolved"
    /\ \E sp \in -1..MaxPoints, tp \in -1..MaxPoints :
          scale = [NoScale EXCEPT !.score_points = sp, !.total_points = tp]
    /\ pick = NoPick
    /\ normed = NoNorm

\* scaled = scale_reading_score(score_points, total_points)
Scale ==
    /\ ~scale.called
    /\ scale' = [scale EXCEPT
          !.scaled = <<scale_reading_score(scale.score_points, scale.total_points)>>,
          !.called = TRUE]
    /\ UNCHANGED <<files, jsonCache, rngShuffle, rngPassage, lifeVars, inE,
                   inSeed, out1, out2, resolved, graded, phase, pick, normed>>

NextScore ==
    \/ Grade
    \/ Scale

SpecScore == InitScore /\ [][NextScore]_vars

-----------------------------------------------------------------------------
(* Specification SpecScale: scale_reading_score alone, called twice with   *)
(* one total and any two raw scores.                                       *)

InitScale ==
    /\ files \in {f \in FileSets : f["q9"] = Q9Missing /\ f["keys"] = NoKeys}
    /\ LifeInit
    /\ inE = <<>> /\ inSeed = 0 /\ out1 = <<>> /\ out2 = <<>>
    /\ resolved = <<>> /\ graded = <<>> /\ phase = "off"
    /\ \E sp \in -1..MaxPoints, tp \in -1..MaxPoints :
          scale = [NoScale EXCEPT !.score_points = sp, !.total_points = tp]
    /\ pick = NoPick
    /\ normed = NoNorm

\* scale_reading_score called again with the same total and any raw score
ScaleAgain ==
    /\ scale.called
    /\ scale.earlier = <<>>
    /\ \E sp \in -1..MaxPoints :
          scale' = [scale EXCEPT
              !.score_points = sp,
              !.scaled = <<scale_reading_score(sp, scale.total_points)>>,
              !.earlier = <<[score_points |-> scale.score_points,
                             scaled |-> scale.scaled[1]]>>]
    /\ UNCHANGED <<files, jsonCache, rngShuffle, rngPassage, lifeVars, inE,
                   inSeed, out1, out2, resolved, graded, phase, pick, normed>>

NextScale ==
    \/ Scale
    \/ ScaleAgain

SpecScale == InitScale /\ [][NextScale]_vars

-----------------------------------------------------------------------------
(* Specification SpecPick: pick_full_exam_set_for_attempt alone, on banks  *)
(* of 1..MaxBank passages, called again and again with any seed.           *)

PickFileSets ==
    {[p \in Paths |->
        CASE p = "passages" -> BankOf(n)
          [] p = "q9" -> Q9Missing
          [] p = "q10" -> Q10File
          [] p = "keys" -> KeysList(StrVal(<<"A", "B", "D">>))] : n \in 1..MaxBank}

InitPick ==
    /\ files \in PickFileSets
    /\ LifeInit
    /\ StudyIdle

\* pick_full_exam_set_for_attempt(seed): the count, the index drawn, the
\* exam set loaded
Pick ==
    /\ \E seed \in 1..MaxSeed :
       LET count == PassageCount(jsonCache, files)
       IN  \E pidx \in 0..(count - 1) :
           /\ SeededIndex(rngPassage, seed, count, pidx)
           /\ rngPassage' = DictPut(rngPassage, <<seed, count>>, pidx)
           /\ LET r == pick_full_exam_set_for_attempt(jsonCache, files, pidx)
              IN  /\ jsonCache' = r.cache
                  /\ pick' = [seed |-> seed, count |-> count,
                              passage_index |-> pidx, ok |-> r.ok,
                              exam_set_id |-> r.exam_set.id, called |-> TRUE]
    /\ UNCHANGED <<files, rngShuffle, lifeVars, inE, inSeed, out1, out2,
                   resolved, graded, phase, scale, normed>>

NextPick == Pick

SpecPick == InitPick /\ [][NextPick]_vars

-----------------------------------------------------------------------------
(* Specification SpecNormalize: the bank normalizer alone, on one question *)
(* of a passage whose raw choices value is drawn.                          *)

\* the labels of up to five raw choices
NormLabels ==
    {<<"A", "B", "C", "D", "E">>, <<"D", "C", "B", "A", "E">>,
     <<" a", "b ", "c", "d", "e">>, <<"1", "2", "3", "4", "5">>,
     <<"A", "A", "A", "A", "A">>, <<"", "", "", "", "">>}

\* the texts of up to five raw choices
NormTexts ==
    {<<"t1", "t2", "t3", "t4", "t5">>, <<"", "", "", "", "">>,
     <<"t1", "", "", "t4", "t5">>}

\* raw choices values: lists of 0..5 strings, label/text objects or
\* letter/text pairs, lists of items of several kinds ("mixed"), a value
\* that is no list ("scalar"), and no value
NormRawChoices ==
    {Labelled(shape, [i \in 1..n |-> <<lab[i], txt[i]>>]) :
        shape \in {"strings", "dicts", "pairs", "mixed"}, n \in 0..5,
        lab \in NormLabels, txt \in NormTexts}
    \cup {NoChoices, Labelled("scalar", <<>>)}

InitNormalize ==
    /\ files \in {f \in FileSets : f["q9"] = Q9Missing /\ f["keys"] = NoKeys}
    /\ LifeInit
    /\ inE = <<>> /\ inSeed = 0 /\ out1 = <<>> /\ out2 = <<>>
    /\ resolved = <<>> /\ graded = <<>> /\ phase = "off"
    /\ scale = NoScale
    /\ pick = NoPick
    /\ \E raw \in NormRawChoices, qtype \in {"", "insert_sentence"} :
          normed = [NoNorm EXCEPT !.raw_choices = raw, !.question_type = qtype]

\* _normalize_passage_schema and _passage_to_exam_set on a passage of one
\* question with the raw choices drawn
Normalize ==
    /\ ~normed.called
    /\ LET q == RawQuestion(NoQid, 1, normed.raw_choices, 0, NoneVal,
                            normed.question_type)
           p_norm == _normalize_passage_schema(
                         [id |-> Pid("P", 1), questions |-> <<q>>])
       IN  normed' = [normed EXCEPT
               !.choices = p_norm.questions[1].choices,
               !.warned = ~ChoicesRecognized(RawChoices(q)),
               !.exam_choices = _passage_to_exam_set(p_norm).questions[1].choices,
               !.called = TRUE]
    /\ UNCHANGED <<files, jsonCache, rngShuffle, rngPassage, lifeVars, inE,
                   inSeed, out1, out2, resolved, graded, phase, scale, pick>>

NextNormalize == Normalize

SpecNormalize == InitNormalize /\ [][NextNormalize]_vars

-----------------------------------------------------------------------------
(* Specification SpecCreate: start() requests served one after another by  *)
(* one worker while passages.json is replaced on disk and the JSON cache   *)
(* is cleared.                                                             *)

\* passages.json whose root is a list
BankNotObject == [kind |-> "notobject", passages |-> <<>>]

\* passages.json whose root is an object without a 'passages' list
BankNoList == [kind |-> "nolist", passages |-> <<>>]

\* passages.json with "passages": []
BankEmpty == [kind |-> "ok", passages |-> <<>>]

CreateBanks == {PassagesFile, BankNotObject, BankNoList, BankEmpty}

CreateFileSets ==
    {[p \in Paths |->
        CASE p = "passages" -> b
          [] p = "q9" -> Q9Missing
          [] p = "q10" -> Q10File
          [] p = "keys" -> KeysList(StrVal(<<"A", "B", "D">>))] : b \in CreateBanks}

InitCreate ==
    /\ files \in CreateFileSets
    /\ LifeInit
    /\ StudyIdle

\* start() returned its redirect or its error: worker t takes the next
\* request
StartReturn(t) ==
    /\ threads[t].pc \in {"done", "failed"}
    /\ ATTEMPT_COUNTER < MaxStarts
    /\ threads' = [threads EXCEPT ![t] = IdleThread]
    /\ UNCHANGED <<files, jsonCache, ATTEMPTS, ATTEMPT_COUNTER, rngShuffle,
                   rngPassage, hist, studyVars>>

\* passages.json is replaced on disk
EditBank ==
    /\ \E b \in CreateBanks \ {files["passages"]} :
          files' = [files EXCEPT !["passages"] = b]
    /\ UNCHANGED <<jsonCache, ATTEMPTS, ATTEMPT_COUNTER, threads, rngShuffle,
                   rngPassage, hist, studyVars>>

\* clear_json_cache()
clear_json_cache ==
    /\ jsonCache # EmptyMap
    /\ jsonCache' = EmptyMap
    /\ UNCHANGED <<files, ATTEMPTS, ATTEMPT_COUNTER, threads, rngShuffle,
                   rngPassage, hist, studyVars>>

NextCreate ==
    \/ StartLoad(1, {<<"full", 1>>})
    \/ StartStore(1)
    \/ StartReadId(1)
    \/ StartCreate(1)
    \/ StartSetMode(1)
    \/ StartReturn(1)
    \/ EditBank
    \/ clear_json_cache

SpecCreate == InitCreate /\ [][NextCreate]_vars

-----------------------------------------------------------------------------
(* Properties of the scoring pipeline (SpecStudy) *)

Shuffled == phase \in {"shuffled1", "shuffled2", "resolved", "graded"}

Resolved == phase \in {"resolved", "graded"}

\* question i before the shuffle and in the first shuffled view
Before(i) == inE.questions[i]
After(i) == out1[1].questions[i]

FourChoice(i) == Len(Before(i).choices) = 4

\* the letters a question marks correct
MarkedLetters(q) == {Upper(q.correct[k]) : k \in DOMAIN q.correct}

\* the texts of the choices a question marks correct
MarkedTexts(q) ==
    {q.choices[k][2] : k \in {j \in DOMAIN q.choices :
                                  Upper(q.choices[j][1]) \in MarkedLetters(q)}}

\* no external answer-key source yields a value for the question: there is
\* no answer-key file, or it is a flat map without the question's id
NoExternalValue(q) ==
    \/ files["keys"].kind = "missing"
    \/ files["keys"].kind = "dict" /\ q.id \notin DOMAIN files["keys"].map

\* C1: when no external answer-key source yields a value for a question of
\* the shuffled exam set, the resolver returns the question's embedded
\* post-shuffle correct letters, the old->new letter map not being applied
\* a second time.
C1_EmbeddedNotRemapped ==
    Resolved =>
        \A i \in DOMAIN out1[1].questions :
            NoExternalValue(After(i)) /\ After(i).correct # <<>> =>
                /\ After(i).id \in DOMAIN resolved[1]
                /\ resolved[1][After(i).id] = After(i).correct

\* the trailing number of a question id, 0 when the id has no digits
TrailingNumber(qid) == IF qid.fmt \in {"w", "W", ""} THEN 0 ELSE qid.q

\* the answers the list-schema answer key declares for the passage of the
\* exam set
DeclaredAnswers ==
    IF files["keys"].kind # "list" THEN <<>>
    ELSE LET at == {r \in DOMAIN files["keys"].rows :
                        files["keys"].rows[r].id = inE.id.n}
         IN  IF at = {} THEN <<>>
             ELSE files["keys"].rows[CHOOSE r \in at : \A j \in at : r <= j].answers

\* the answer key declares a letter of A..D at the ordinal position that is
\* the trailing number of the id of question i
Declares(i) ==
    /\ TrailingNumber(Before(i).id) \in DOMAIN DeclaredAnswers
    /\ DeclaredAnswers[TrailingNumber(Before(i).id)].kind = "str"
    /\ Len(DeclaredAnswers[TrailingNumber(Before(i).id)].s) = 1
    /\ DeclaredAnswers[TrailingNumber(Before(i).id)].s[1] \in Letters4

DeclaredLetter(i) == DeclaredAnswers[TrailingNumber(Before(i).id)].s[1]

\* the post-shuffle letter of the declared letter
RemappedLetter(i) == After(i).meta.old_to_new_letter[DeclaredLetter(i)]

\* the resolver returns old_to_new[L] for question i, and a submission of one
\* letter scores 1 of 1 when it is that letter and 0 of 1 otherwise
ScoresDeclared(i) ==
    /\ After(i).id \in DOMAIN resolved[1]
    /\ resolved[1][After(i).id] = <<RemappedLetter(i)>>
    /\ phase = "graded" =>
          \A x \in Letters4 :
              graded[1].answers = [k \in {After(i).id} |-> <<x>>] =>
                  /\ graded[1].report.feedback[i].max_points = 1
                  /\ graded[1].report.feedback[i].points =
                        IF x = RemappedLetter(i) THEN 1 ELSE 0

\* the id shapes with a passage part and a separator before the number, or
\* a Q before the number
SeparatedId(qid) ==
    qid.fmt \in {"P-Q", "N-N", "P-N", "P-q", "N-q", "N-Q", "p_q", "P_Q", "q", "Q"}

C3_CorrectTextsKept ==
    Shuffled =>
        \A i \in DOMAIN inE.questions :
            /\ FourChoice(i)
            /\ MarkedLetters(Before(i)) # {}
            /\ MarkedLetters(Before(i)) \subseteq Letters4
            => MarkedTexts(After(i)) = MarkedTexts(Before(i))

\* a question with two correct letters was shuffled and its correct letters
\* changed
C3_Witness ==
    /\ Shuffled
    /\ \E i \in DOMAIN inE.questions :
          /\ FourChoice(i)
          /\ Cardinality(MarkedLetters(Before(i))) = 2
          /\ MarkedLetters(After(i)) # MarkedLetters(Before(i))
          /\ MarkedTexts(After(i)) = MarkedTexts(Before(i))

\* C4: two invocations of shuffle_exam_set on the same exam set and seed
\* return equal results.
C4_ShuffleDeterministic ==
    phase \in {"shuffled2", "resolved", "graded"} => out2 = out1

\* both invocations happened and changed the choice order of a question
C4_Witness ==
    /\ phase = "shuffled2"
    /\ out2 = out1
    /\ \E i \in DOMAIN inE.questions :
          FourChoice(i) /\ After(i).choices # Before(i).choices

\* question a with the choices, the correct-letter fields and the metadata
\* of question b
WithShuffledFields(a, b) ==
    [a EXCEPT !.choices = b.choices,
              !.correct = b.correct,
              !.correct_index = b.correct_index,
              !.correct_letter = b.correct_letter,
              !.correct_letters = b.correct_letters,
              !.meta = b.meta]

\* exam set e has the questions of inE in their order, each differing at
\* most in its choices, correct-letter fields and metadata
SameFrame(e) ==
    /\ e.id = inE.id
    /\ Len(e.questions) = Len(inE.questions)
    /\ \A i \in DOMAIN inE.questions :
          /\ e.questions[i].id = Before(i).id
          /\ e.questions[i].type = Before(i).type
          /\ e.questions[i].prompt = Before(i).prompt
          /\ WithShuffledFields(Before(i), e.questions[i]) = e.questions[i]

\* C26: shuffle_exam_set leaves its argument unchanged and never reorders
\* questions: the output has the same number of questions with the same
\* ids, types and prompts in the same order; only the choice order, the
\* correct-letter fields and the metadata of a question may differ.
C26_ShuffleFrame ==
    /\ [](Shuffled => SameFrame(out1[1]))
    /\ [](out2 # <<>> => SameFrame(out2[1]))
    /\ [][inE' = inE]_vars

\* an exam set of several questions was shuffled twice and a question's
\* choices changed their order
C26_Witness ==
    /\ out2 # <<>>
    /\ Len(inE.questions) > 1
    /\ SameFrame(out1[1])
    /\ \E i \in DOMAIN inE.questions : After(i).choices # Before(i).choices

\* how often text t stands among the choices of question q
TextCount(q, t) == Cardinality({k \in DOMAIN q.choices : q.choices[k][2] = t})

\* the letters of the choices of question q, by position
ChoiceLetters(q) == [k \in DOMAIN q.choices |-> q.choices[k][1]]

\* question q carries no permutation record
NoPermutationRecord(q) ==
    /\ ~q.meta.shuffled_choices
    /\ q.meta.old_to_new_letter = EmptyMap
    /\ q.meta.new_to_old_letter = EmptyMap

\* C27: after shuffle_exam_set every 4-choice question has its choices
\* lettered A, B, C, D by position, with the multiset of choice texts it
\* had before; every question whose choice count is not 4 has the choices
\* and the correct letters of the input and no permutation record.
C27_AlphabetInvariance ==
    Shuffled =>
        \A i \in DOMAIN inE.questions :
            IF FourChoice(i)
            THEN /\ ChoiceLetters(After(i)) = LETTERS4
                 /\ \A k \in 1..4 :
                       TextCount(After(i), Before(i).choices[k][2])
                           = TextCount(Before(i), Before(i).choices[k][2])
            ELSE /\ After(i).choices = Before(i).choices
                 /\ After(i).correct = Before(i).correct
                 /\ After(i).correct_letters = Before(i).correct_letters
                 /\ After(i).correct_letter = Before(i).correct_letter
                 /\ After(i).correct_index = Before(i).correct_index
                 /\ NoPermutationRecord(After(i))

\* an exam set with a 4-choice question holding one text twice, reordered
\* by the shuffle, and a summary question of six choices A..F
C27_Witness ==
    /\ Shuffled
    /\ \E i \in DOMAIN inE.questions :
          /\ FourChoice(i)
          /\ \E k \in 1..4 : TextCount(Before(i), Before(i).choices[k][2]) = 2
          /\ After(i).choices # Before(i).choices
    /\ \E i \in DOMAIN inE.questions :
          /\ Len(Before(i).choices) = 6
          /\ ChoiceLetters(After(i)) = LETTERS
          /\ After(i).correct # <<>>

\* the texts of the choices of question q lettered l
TextsLettered(q, l) ==
    {q.choices[k][2] : k \in {j \in DOMAIN q.choices : q.choices[j][1] = l}}

\* C28: the permutation record of every shuffled 4-choice question is
\* faithful: meta.old_to_new_letter is a bijection on A..D,
\* meta.new_to_old_letter is its inverse, and for every old letter L the
\* text that stood at L (the position L letters) before the shuffle is the
\* text of the choice lettered old_to_new_letter[L] afterwards.
C28_PermutationRecord ==
    Shuffled =>
        \A i \in DOMAIN inE.questions :
            FourChoice(i) =>
                LET o2n == After(i).meta.old_to_new_letter
                    n2o == After(i).meta.new_to_old_letter
                IN  /\ After(i).meta.shuffled_choices
                    /\ DOMAIN o2n = Letters4
                    /\ {o2n[l] : l \in Letters4} = Letters4
                    /\ DOMAIN n2o = Letters4
                    /\ \A l \in Letters4 : n2o[o2n[l]] = l /\ o2n[n2o[l]] = l
                    /\ \A l \in Letters4 :
                          TextsLettered(After(i), o2n[l])
                              = {Before(i).choices[IndexOf(LETTERS4, l)][2]}

\* a question of four different texts was shuffled by a permutation that is
\* not its own inverse
C28_Witness ==
    /\ Shuffled
    /\ \E i \in DOMAIN inE.questions :
          /\ FourChoice(i)
          /\ \A k \in 1..4 : TextCount(Before(i), Before(i).choices[k][2]) = 1
          /\ After(i).meta.old_to_new_letter # After(i).meta.new_to_old_letter
          /\ \A l \in Letters4 :
                TextsLettered(After(i), After(i).meta.old_to_new_letter[l])
                    = {Before(i).choices[IndexOf(LETTERS4, l)][2]}

\* the letters a correct value names, in the literal forms the answer key
\* accepts: letters of A..F (bare, listed, or joined by commas and blanks),
\* or digits 0..5 taken as 0-based indices; <<>> when it names anything else
LettersOf(v) ==
    LET toks == IF v.kind = "none" THEN <<>>
                ELSE SelectSeqBy(MapUpper(v.s),
                                 Range(MapUpper(v.s)) \ {",", " "})
    IN  IF toks = <<>> THEN <<>>
        ELSE IF \A k \in DOMAIN toks : toks[k] \in Letters6 THEN toks
        ELSE IF \A k \in DOMAIN toks :
                    IsDigit(toks[k]) /\ DigitValue(toks[k]) < Len(LETTERS)
            THEN [k \in DOMAIN toks |-> LETTERS[DigitValue(toks[k]) + 1]]
        ELSE <<>>

\* pre-shuffle letters in the lettering of the shuffled question i
InNewLetters(i, letters) ==
    [k \in DOMAIN letters |->
        DictGet(After(i).meta.old_to_new_letter, letters[k], letters[k])]

\* the value the list-schema answer key gives question i: <<v>>, or <<>>
ListEntry(i) ==
    IF TrailingNumber(Before(i).id) \in DOMAIN DeclaredAnswers
    THEN <<DeclaredAnswers[TrailingNumber(Before(i).id)]>> ELSE <<>>

\* the value the flat legacy map gives question i: <<v>>, or <<>>
LegacyEntry(i) ==
    IF files["keys"].kind = "dict" /\ Before(i).id \in DOMAIN files["keys"].map
    THEN <<files["keys"].map[Before(i).id]>> ELSE <<>>

ListYields(i) == ListEntry(i) # <<>> /\ LettersOf(ListEntry(i)[1]) # <<>>

LegacyYields(i) == LegacyEntry(i) # <<>> /\ LettersOf(LegacyEntry(i)[1]) # <<>>

\* the resolver's value for question i: <<>> when the map has none
ResolvedFor(i) == DictGet(resolved[1], After(i).id, <<>>)

\* C13: the resolved value of each question is the list-schema entry when
\* that yields a value, otherwise the flat legacy map's when that yields
\* one, and the embedded post-shuffle default only when neither does.
C13_Priority ==
    Resolved =>
        \A i \in DOMAIN inE.questions :
            ResolvedFor(i) =
                IF ListYields(i) THEN InNewLetters(i, LettersOf(ListEntry(i)[1]))
                ELSE IF LegacyYields(i)
                    THEN InNewLetters(i, LettersOf(LegacyEntry(i)[1]))
                ELSE After(i).correct

\* C14: when the answer-key file is a flat map with a key equal to the id of
\* a question, the resolved value of the question is the map's value for
\* the key passed through the old->new letter map.
C14_LegacyDirect ==
    Resolved =>
        \A i \in DOMAIN inE.questions :
            LegacyYields(i) =>
                ResolvedFor(i) = InNewLetters(i, LettersOf(LegacyEntry(i)[1]))

\* a value that is an integer or a string of digits, each in 0..5
DigitValueOf(v) ==
    /\ v.kind \in {"int", "str"}
    /\ v.s # <<>>
    /\ \A k \in DOMAIN v.s : IsDigit(v.s[k]) /\ DigitValue(v.s[k]) < Len(LETTERS)

\* C15: a correct value given by the list schema as an integer or a digit
\* string names the letters LETTERS[i] in pre-shuffle lettering: the
\* resolved answer is their image under the old->new letter map.
C15_DigitsAreIndices ==
    Resolved =>
        \A i \in DOMAIN inE.questions :
            ListEntry(i) # <<>> /\ DigitValueOf(ListEntry(i)[1])
                /\ SeparatedId(Before(i).id) =>
                ResolvedFor(i) = InNewLetters(i, LettersOf(ListEntry(i)[1]))

\* C16: every value of the map the resolver returns is a non-empty sequence
\* of letters of A..F.
C16_OnlyLetters ==
    Resolved =>
        \A qid \in DOMAIN resolved[1] :
            /\ resolved[1][qid] # <<>>
            /\ Range(resolved[1][qid]) \subseteq Letters6

-----------------------------------------------------------------------------
(* Properties of start() (SpecStart) *)

\* the attempt of a thread whose create_attempt returned
Created(t) == threads[t].pc \in {"created", "done"}

\* the summary question of passage 1 is in its bank with six choices and the
\* answer-key file gives it no correct letters: the file is unreadable, its
\* root no list, the row of the passage missing, the answers fewer than ten,
\* or the tenth no non-empty string
Q10Unresolvable ==
    files["keys"] \in {NoKeys, KeysInvalid, KeysLegacy, KeysOther, KeysShort,
                       KeysList(ListVal(<<"A", "B">>)), KeysList(StrVal(<<" ">>))}

HasSummary(exam_set) ==
    \E i \in DOMAIN exam_set.questions : exam_set.questions[i].type = "summary"

\* C5: when the correct letters of the summary question cannot be resolved,
\* create_attempt still succeeds, and the exam set has no summary question.
C5_Q10MergeNonFatal ==
    Q10Unresolvable =>
        \A t \in Threads :
            /\ threads[t].pc # "failed"
            /\ Created(t) /\ threads[t].attempt_id \in DOMAIN ATTEMPTS =>
                  ~HasSummary(ATTEMPTS[threads[t].attempt_id].raw_exam_set)

\* the insert-sentence bank gives its question for passage 1 no valid
\* correct_index, letter or letter list
Q9Unresolvable ==
    files["q9"] \in {Q9File(-1, NoneVal), Q9File(-1, StrVal(<<"Z">>))}

\* C6: an insert-sentence question whose correct answer cannot be resolved is
\* not in the merged exam set.
C6_Q9Omitted ==
    Q9Unresolvable =>
        \A a \in DOMAIN ATTEMPTS :
            \A i \in DOMAIN ATTEMPTS[a].raw_exam_set.questions :
                ATTEMPTS[a].raw_exam_set.questions[i].id # Qid("P-Q", 1, 9)

\* C7: no two create_attempt calls get the same attempt id.
C7_UniqueIds ==
    \A t, u \in Threads :
        /\ t # u
        /\ threads[t].pc \in {"id", "created", "done", "failed"}
        /\ threads[u].pc \in {"id", "created", "done", "failed"}
        => threads[t].attempt_id # threads[u].attempt_id

-----------------------------------------------------------------------------
(* Properties of one attempt's life (Spec) *)

\* C8: the stored answer of each question is the value sent by the last
\* save, submit or autosubmit request that carried an answer for it; no other
\* request changes it.
C8_AnswersKept ==
    \A a \in DOMAIN ATTEMPTS :
        /\ DOMAIN ATTEMPTS[a].answers = DOMAIN DictGet(hist.sent, a, EmptyMap)
        /\ \A q \in DOMAIN ATTEMPTS[a].answers :
              ATTEMPTS[a].answers[q] = hist.sent[a][q]

\* two requests stored answers to two questions
C8_Witness ==
    /\ hist.n = 2
    /\ \E a \in DOMAIN ATTEMPTS :
          /\ Cardinality(DOMAIN ATTEMPTS[a].answers) = 2
          /\ \A q \in DOMAIN ATTEMPTS[a].answers :
                ATTEMPTS[a].answers[q] = hist.sent[a][q]

\* C9: once submit or autosubmit was served for an attempt, the attempt is
\* marked submitted, and every grading of it gives the report of the first.
C9_ScoredOnce ==
    \A a \in hist.submitted :
        /\ a \in DOMAIN hist.scored =>
              ResultReport(ATTEMPTS[a], ATTEMPTS[a].shuffled_exam_set[1], files)
                  = hist.scored[a]
        /\ ATTEMPTS[a].submitted

\* C10: the raw exam set of an attempt in the registry is never changed.
C10_RawExamSetKept ==
    [][\A a \in DOMAIN ATTEMPTS :
          /\ a \in DOMAIN ATTEMPTS'
          /\ ATTEMPTS'[a].raw_exam_set = ATTEMPTS[a].raw_exam_set]_vars

\* the view was shuffled and cached, answers were stored, the attempt was
\* submitted and graded, and the raw exam set still has the order of the bank
C10_Witness ==
    \E a \in DOMAIN ATTEMPTS :
        /\ ATTEMPTS[a].shuffled_exam_set # <<>>
        /\ \E i \in DOMAIN ATTEMPTS[a].raw_exam_set.questions :
              ATTEMPTS[a].shuffled_exam_set[1].questions[i].choices
                  # ATTEMPTS[a].raw_exam_set.questions[i].choices
        /\ ATTEMPTS[a].answers # EmptyMap
        /\ a \in DOMAIN hist.scored
        /\ \A i \in DOMAIN ATTEMPTS[a].raw_exam_set.questions :
              ~ATTEMPTS[a].raw_exam_set.questions[i].meta.shuffled_choices

\* base questions 1, the merged insert-sentence question 2, the merged
\* summary question 3
MergeRank(q) ==
    IF q.type = "summary" THEN 3
    ELSE IF q.meta.question_type = "insert_sentence" THEN 2
    ELSE 1

\* the questions of exam set e carry seq 1..N in list order
SeqInOrder(e) == \A i \in DOMAIN e.questions : e.questions[i].meta.seq = i

\* C22: the questions of an attempt's raw exam set carry meta.seq 1..N in
\* list order, base questions first, then the merged insert-sentence and
\* summary questions; no later operation changes a seq, and each question
\* has the same seq in the shuffled view as in the raw exam set.
C22_SeqStable ==
    \A a \in DOMAIN ATTEMPTS :
        LET raw == ATTEMPTS[a].raw_exam_set
            cached == ATTEMPTS[a].shuffled_exam_set
        IN  /\ SeqInOrder(raw)
            /\ \A i, j \in DOMAIN raw.questions :
                  i < j => MergeRank(raw.questions[i]) <= MergeRank(raw.questions[j])
            /\ cached # <<>> =>
                  /\ DOMAIN cached[1].questions = DOMAIN raw.questions
                  /\ \A i \in DOMAIN raw.questions :
                        /\ cached[1].questions[i].id = raw.questions[i].id
                        /\ cached[1].questions[i].meta.seq
                              = raw.questions[i].meta.seq

\* an attempt of a base question, an insert-sentence question and a
\* summary question, with a view whose choices were reordered, read again
\* after that
C22_Witness ==
    \E a \in DOMAIN ATTEMPTS :
        LET raw == ATTEMPTS[a].raw_exam_set
            cached == ATTEMPTS[a].shuffled_exam_set
        IN  /\ Len(raw.questions) = 3
            /\ MergeRank(raw.questions[2]) = 2 /\ MergeRank(raw.questions[3]) = 3
            /\ cached # <<>>
            /\ \E i \in DOMAIN raw.questions :
                  cached[1].questions[i].choices # raw.questions[i].choices
            /\ a \in DOMAIN hist.scored

\* the attempts create_attempt, about to draw its seed, can store: one for
\* each seed and each passage index the generator can give for the seed
Creatable ==
    LET count == PassageCount(jsonCache, files)
    IN  {NewAttempt(d[1],
             _ensure_seq(pick_full_exam_set_for_attempt(jsonCache, files, d[2]).exam_set),
             "full", 1) :
           d \in {e \in (1..MaxSeed) \X (0..(count - 1)) :
                    /\ SeededIndex(rngPassage, e[1], count, e[2])
                    /\ pick_full_exam_set_for_attempt(jsonCache, files, e[2]).ok}}

\* create_attempt can store an attempt with passage seed ps and shuffle
\* seed ss
CanCreateWith(ps, ss) ==
    \E attempt \in Creatable :
        attempt.passage_seed = ps /\ attempt.shuffle_seed = ss

\* C23: create_attempt draws the passage seed and the shuffle seed
\* separately: wherever it is about to draw, every pair of a passage seed
\* and a shuffle seed is a pair the attempt it stores can have, so the
\* shuffle seed is not determined by the passage seed.
C23_IndependentSeeds ==
    \A t \in Threads :
        threads[t].pc = "id" =>
            \A ps, ss \in 1..MaxSeed : CanCreateWith(ps, ss)

\* the seeds of every attempt in the registry are one number, and every
\* attempt stored is one of those create_attempt could store
SeedsEqual ==
    /\ [](\A a \in DOMAIN ATTEMPTS :
            ATTEMPTS[a].passage_seed = ATTEMPTS[a].shuffle_seed)
    /\ [][\A t \in Threads :
            (threads[t].pc = "id" /\ threads'[t].pc = "created") =>
                ATTEMPTS'[threads[t].attempt_id] \in Creatable]_vars

\* C24: every attempt in the registry has mode full or single and a
\* single-question index in 1..10, whatever the start form supplied.
C24_ModeAndIndexValid ==
    \A a \in DOMAIN ATTEMPTS :
        /\ ATTEMPTS[a].mode \in {"full", "single"}
        /\ ATTEMPTS[a].single_index \in 1..10

-----------------------------------------------------------------------------
(* Properties of the read requests on one attempt (SpecServe) *)

\* the views shuffle_exam_set(raw_exam_set, shuffle_seed) may give for
\* attempt a, the generators having drawn what rngShuffle records
ViewsOf(a) ==
    {_ensure_seq(shuffle_exam_set(ATTEMPTS[a].raw_exam_set, os)) :
        os \in OrdersFor(rngShuffle, ATTEMPTS[a].raw_exam_set,
                         ATTEMPTS[a].shuffle_seed, LifeOrders)}

\* every view a request holds is shuffle_exam_set(raw_exam_set, shuffle_seed)
\* and is the cached view
ViewsReturned ==
    \A t \in Threads :
        threads[t].view # <<>> =>
            /\ ViewsOf(threads[t].attempt_id) = {threads[t].view[1]}
            /\ ATTEMPTS[threads[t].attempt_id].shuffled_exam_set = threads[t].view

\* C11: every call of get_exam_set_for_attempt, two concurrent first reads
\* that both find the cache empty included, returns the view
\* shuffle_exam_set(raw_exam_set, shuffle_seed), and a cached view is never
\* replaced by a different one.
C11_ViewStable ==
    /\ []ViewsReturned
    /\ [][\A a \in DOMAIN ATTEMPTS :
             ATTEMPTS[a].shuffled_exam_set # <<>> =>
                 ATTEMPTS'[a].shuffled_exam_set = ATTEMPTS[a].shuffled_exam_set]_vars

\* two requests both found the cache empty, both shuffled, and hold the
\* same view, whose choice order is not the raw exam set's
C11_Witness ==
    /\ \A t \in Threads : threads[t].pc = "shuffled" /\ threads[t].attempt_id = 1
    /\ threads[1].view = threads[2].view
    /\ \E i \in DOMAIN ATTEMPTS[1].raw_exam_set.questions :
          threads[1].view[1].questions[i].choices
              # ATTEMPTS[1].raw_exam_set.questions[i].choices

\* C12: the report of an attempt whose stored answers did not change is the
\* report of its first grading, whatever was done to the answer-key file
\* since.
C12_KeysReadOnce ==
    \A a \in DOMAIN hist.scored :
        ATTEMPTS[a].shuffled_exam_set # <<>> =>
            ResultReport(ATTEMPTS[a], ATTEMPTS[a].shuffled_exam_set[1], files)
                = hist.scored[a]

-----------------------------------------------------------------------------
(* Properties of the grader (SpecScore) *)

\* the question graded, its feedback entry, and the letter sets scored: U
\* the letters submitted for it, C the letters of its resolved correct value
\* (the embedded one when the map has no entry)
GradedQuestion == out1[1].questions[1]

Feedback == graded[1].report.feedback[1]

SubmittedSet ==
    Range(DictGet(graded[1].answers, GradedQuestion.id, <<>>)) \cap Letters6

CorrectSet ==
    Range(DictGet(resolved[1], GradedQuestion.id, GradedQuestion.correct))
        \cap Letters6

\* the score of the feedback entry is pts of max, correct iff pts = max
Scores(pts, max) ==
    /\ Feedback.points = pts
    /\ Feedback.max_points = max
    /\ Feedback.ok = (pts = max)

\* C17: with a non-empty correct set, a single question scores 1 of 1 iff
\* exactly one letter was submitted and it is in the correct set, and 0 of 1
\* otherwise.
C17_SingleScoring ==
    phase = "graded" /\ GradedQuestion.type = "single" /\ CorrectSet # {} =>
        IF Cardinality(SubmittedSet) = 1 /\ SubmittedSet \subseteq CorrectSet
        THEN Scores(1, 1) ELSE Scores(0, 1)

\* one letter of a correct set of several was submitted to a single
\* question and scored 1 of 1
C17_Witness ==
    /\ phase = "graded" /\ GradedQuestion.type = "single"
    /\ Cardinality(CorrectSet) > 1
    /\ Cardinality(SubmittedSet) = 1 /\ SubmittedSet \subseteq CorrectSet
    /\ Scores(1, 1)

\* C18: a multi question scores 1 of 1 and a summary question 2 of 2 iff the
\* submitted set is non-empty and equals the correct set; every other
\* submission scores 0.
C18_AllOrNothing ==
    phase = "graded" /\ GradedQuestion.type \in {"multi", "summary"} =>
        LET max == IF GradedQuestion.type = "summary" THEN 2 ELSE 1
        IN  IF SubmittedSet # {} /\ SubmittedSet = CorrectSet
            THEN Scores(max, max) ELSE Scores(0, max)

\* a proper, non-empty subset of the correct set was submitted to a summary
\* question and scored 0 of 2
C18_Witness ==
    /\ phase = "graded" /\ GradedQuestion.type = "summary"
    /\ SubmittedSet # {} /\ SubmittedSet \subseteq CorrectSet
    /\ SubmittedSet # CorrectSet
    /\ Scores(0, 2)

\* C19: a question whose resolved correct set is empty scores 0 points,
\* marked incorrect, whatever was submitted and whatever its type.
C19_EmptyCorrectScoresZero ==
    phase = "graded" /\ CorrectSet = {} =>
        /\ Feedback.points = 0
        /\ ~Feedback.ok
        /\ graded[1].report.score_points = 0

\* a summary question whose resolved value names no letter was graded on a
\* submission of two letters
C19_Witness ==
    /\ phase = "graded" /\ GradedQuestion.type = "summary"
    /\ GradedQuestion.id \in DOMAIN resolved[1]
    /\ CorrectSet = {} /\ Cardinality(SubmittedSet) = 2
    /\ Feedback.points = 0

\* the fixed table of the scaled score, by raw points of 11
ScaledOf11 ==
    [r \in 0..11 |->
        CASE r = 11 -> 30 [] r = 10 -> 29 [] r = 9 -> 28 [] r = 8 -> 27
          [] r = 7 -> 26 [] r = 6 -> 25 [] r = 5 -> 23 [] r = 4 -> 20
          [] r = 3 -> 16 [] r = 2 -> 12 [] r = 1 -> 7 [] r = 0 -> 0]

\* C20: for total 11 and raw in 0..11 the scaled score is the table's value
\* for raw; for another total > 0 and 0 <= raw <= total it is the table's
\* value for an integer r with |r - raw * 11 / total| <= 1/2; it always lies
\* in 0..30.
C20_ScaledScore ==
    scale.called =>
        LET raw == scale.score_points
            total == scale.total_points
            out == scale.scaled[1]
        IN  /\ out \in 0..30
            /\ total = 11 /\ raw \in 0..11 => out = ScaledOf11[raw]
            /\ total # 11 /\ total > 0 /\ raw \in 0..total =>
                  \E r \in 0..11 :
                      /\ 2 * r * total - 2 * raw * 11 <= total
                      /\ 2 * raw * 11 - 2 * r * total <= total
                      /\ out = ScaledOf11[r]

\* a raw score half-way between two table rows was scaled
C20_Witness ==
    /\ scale.called
    /\ scale.total_points = 2 /\ scale.score_points = 1
    /\ scale.scaled = <<25>>

-----------------------------------------------------------------------------
(* Properties of scale_reading_score called twice (SpecScale) *)

\* C30: for every total > 0 the scaled score is monotone non-decreasing in
\* the raw score over 0..total, the scaled score of 0 is 0 and the scaled
\* score of total is 30.
C30_ScaleMonotone ==
    (scale.called /\ scale.total_points > 0) =>
        LET total == scale.total_points
            r2 == scale.score_points
            s2 == scale.scaled[1]
        IN  /\ r2 = 0 => s2 = 0
            /\ r2 = total => s2 = 30
            /\ \A k \in DOMAIN scale.earlier :
                  LET r1 == scale.earlier[k].score_points
                      s1 == scale.earlier[k].scaled
                  IN  (r1 \in 0..total /\ r2 \in 0..total) =>
                          /\ r1 <= r2 => s1 <= s2
                          /\ r2 <= r1 => s2 <= s1

\* two raw scores of a total other than 11 were scaled, the smaller to less
\* than the larger, the larger being the total and scaled to 30
C30_Witness ==
    /\ scale.called
    /\ scale.total_points \in 1..10
    /\ scale.score_points = scale.total_points
    /\ scale.scaled = <<30>>
    /\ \E k \in DOMAIN scale.earlier :
          /\ scale.earlier[k].score_points \in 1..(scale.total_points - 1)
          /\ scale.earlier[k].scaled < 30

-----------------------------------------------------------------------------
(* Properties of the passage pick (SpecPick) *)

\* the number of passages of the bank on disk
BankSize == Len(files["passages"].passages)

\* the index picked is in range, and the exam set loaded is the one of the
\* passage at that index
PickInRange ==
    pick.called =>
        /\ pick.count = Min(BankSize, 12)
        /\ pick.passage_index \in 0..(Min(BankSize, 12) - 1)
        /\ pick.ok
        /\ pick.exam_set_id = files["passages"].passages[pick.passage_index + 1].id

\* an index once drawn for a seed and a passage count is the index every
\* later pick with that seed and count draws
PickRepeats ==
    \A k \in DOMAIN rngPassage :
        /\ rngPassage'[k] = rngPassage[k]
        /\ (pick'.called /\ <<pick'.seed, pick'.count>> = k) =>
                pick'.passage_index = rngPassage[k]

\* C21: for every seed and every bank of N > 0 passages the index picked
\* lies in 0..min(N, 12)-1, and the same seed and N always pick the same
\* index
C21_PickBoundedDeterministic == []PickInRange /\ [][PickRepeats]_vars

\* a bank of more than 12 passages was picked from twice with one seed, and
\* the pick took the last passage the cap allows
C21_Witness ==
    /\ BankSize > 12
    /\ pick.called /\ pick.passage_index = 11
    /\ \E k \in DOMAIN rngPassage : k # <<pick.seed, pick.count>>

-----------------------------------------------------------------------------
(* Properties of create_attempt on a bank that changes (SpecCreate) *)

\* the root of the base bank as _read_json gives it: the cached payload if
\* the file was read since the cache was cleared, else the file on disk
BankRoot == _read_json(jsonCache, files, "passages")

\* the root is no object, has no 'passages' list, or has an empty one
MalformedRoot ==
    \/ BankRoot.kind = "notobject"
    \/ BankRoot.kind = "nolist"
    \/ BankRoot.kind = "ok" /\ BankRoot.passages = <<>>

\* C25: when the root of the base bank is not an object, lacks a 'passages'
\* list or has an empty passage list, create_attempt fails, adds no entry to
\* the registry and leaves every existing attempt unchanged.
C25_MalformedRootFatal ==
    [][\A t \in Threads :
          (threads[t].pc = "id" /\ threads'[t].pc # "id" /\ MalformedRoot) =>
              /\ threads'[t].pc = "failed"
              /\ ATTEMPTS' = ATTEMPTS]_vars

\* an attempt was created, the bank was replaced by one without passages
\* and the cache cleared, and the next create_attempt failed
C25_Witness ==
    /\ ATTEMPTS # EmptyMap
    /\ ATTEMPT_COUNTER > Cardinality(DOMAIN ATTEMPTS)
    /\ files["passages"] = BankEmpty
    /\ MalformedRoot
    /\ \E t \in Threads : threads[t].pc = "failed"

-----------------------------------------------------------------------------
(* Properties of the bank normalizer (SpecNormalize) *)

\* the raw choices the question's normalization starts from
NormRaw ==
    IF normed.question_type = "insert_sentence" /\ normed.raw_choices.shape = "none"
    THEN InsertChoices ELSE normed.raw_choices

\* the raw value is a list of 4 strings, 4 label/text objects or 4
\* letter/text pairs
LegalShape(raw) == raw.shape \in {"strings", "dicts", "pairs"} /\ Len(raw.items) = 4

Blank4 == <<"", "", "", "">>

\* C29: for every raw choices value of a base or insert-sentence question
\* _normalize_choices returns 4 texts, lettered A-D by position in the exam
\* set; when the raw value is none of the three legal shapes the texts are
\* four blanks and a warning is appended.
C29_FourChoices ==
    normed.called =>
        /\ Len(normed.choices) = 4
        /\ normed.exam_choices = [i \in 1..4 |-> <<LETTERS4[i], normed.choices[i]>>]
        /\ ~LegalShape(NormRaw) => normed.choices = Blank4 /\ normed.warned

\* a list of five label/text objects with recognized labels and texts was
\* normalized to four blanks with a warning
C29_Witness ==
    /\ normed.called
    /\ normed.raw_choices.shape = "dicts"
    /\ Len(normed.raw_choices.items) = 5
    /\ normed.raw_choices.items[1] = <<"A", "t1">>
    /\ normed.choices = Blank4
    /\ normed.warned

====
